---------------------------- MODULE Spec2Model ----------------------------
(***************************************************************************)
(* Verification model of the streaming platform anomaly detector:          *)
(*   - the metric catalog and the severity classifier is_anomalous         *)
(*     (platform_metrics_definition.py);                                   *)
(*   - the cross-component pattern detector get_cross_component_anomalies  *)
(*     (platform_monitoring_agent.py).                                     *)
(*                                                                         *)
(* Numbers.  The source computes on Python floats; the model computes on   *)
(* integers in a fixed resolution per metric, which keeps every order      *)
(* comparison of the source exact on the values the model draws:           *)
(*   H(n)    n source units, held in hundredths (the resolution of the     *)
(*           generator's round(value, 2)); a fractional source literal     *)
(*           such as 0.1 is written as its hundredths, 10;                 *)
(*   B(n)    n bytes/sec held in whole bytes (hundredths would leave the   *)
(*           32-bit range of TLC integers);                      *)
(*   MiB(n)  n * 1048576 bytes held in whole MiB (checkpoint size);        *)
(*   Inf     float('inf'): above every finite value the model draws.       *)
(***************************************************************************)
EXTENDS Integers, Sequences, FiniteSets, TLC

VARIABLES
  component,          \* is_anomalous argument
  metric_name,        \* is_anomalous argument
  value,              \* is_anomalous argument
  duration_minutes,   \* is_anomalous argument (default 5)
  result,             \* the dict is_anomalous returned
  pc,                 \* position of the classifier call: "call" | "done"
  anomaly_events,     \* rows of table anomaly_events: a bag of rows
  batches,            \* number of committed insertions into anomaly_events
  hours,              \* get_cross_component_anomalies argument
  patterns,           \* rows fetched by get_cross_component_anomalies
  report,             \* what get_cross_component_anomalies returned
  qpc,                \* position of the detector call: "idle" | "done"
  rnd,                \* what the random module returns during one batch
  batch,              \* the dict generate_metrics_batch returned
  gpc,                \* position of the generator call: "call" | "done"
  metrics_1min,       \* rows of view metrics_1min for the queried metric
                      \* within the lookback, most recent bucket first
  trend,              \* what query_metrics_trend returned
  tpc,                \* position of the trend call: "call" | "done"
  running,            \* DataIngestorService.running
  ingestion_count,    \* DataIngestorService.ingestion_count
  anomaly_count,      \* DataIngestorService.anomaly_count
  generated,          \* batches generated by the ingestion loop so far
  stored,             \* batches for which insert_metrics_batch returned True
  failed,             \* batches whose write failed
  platform_metrics,   \* committed rows of table platform_metrics
  resolves,           \* committed runs of check_and_resolve_old_anomalies
  resolve_at,         \* ingestion_count at each of these runs, in order
  log,                \* what the latest iteration printed
  ipc,                \* position of the ingestion thread:
                      \* "init" | "while" | "body" | "sleep" | "exited"
  store,              \* whether the store answers: "up" | "down"
  active_events,      \* unresolved rows of anomaly_events of the last 10
                      \* minutes, latest first
  check_component,    \* check_real_time_anomalies argument component
  response,           \* what the status operation returned
  spc,                \* position of the status operation:
                      \* "call" | "check" | "status" | "overview" | "idle"
  clock,              \* minutes elapsed, the store's NOW()
  events,             \* rows of anomaly_events, in the order of insertion
  pending,            \* rows the open transaction of a pass has updated
  txn_now,            \* NOW() of the open transaction of a pass
  rpc,                \* position of check_and_resolve_old_anomalies:
                      \* "idle" | "warning_done" | "critical_done" | "off"
  host,               \* process that runs the monitor: "api" | "interactive"
  MONITORING_ACTIVE,  \* platform_monitoring_agent.MONITORING_ACTIVE
  api_MONITORING_ACTIVE,\* api_server.MONITORING_ACTIVE
  LATEST_ANOMALIES,   \* number of rows of LATEST_ANOMALIES
  monitor_iterations, \* iterations periodic_anomaly_monitor has entered
  stopped_at,         \* None, or Some(monitor_iterations) at the stop request
  mpc,                \* position of the monitor thread:
                      \* "while" | "body" | "sleep" | "exited"
  log_entry,          \* argument of process_log_entry: None or Some(entry)
  state,              \* AgentState of the running workflow
  trace,              \* nodes of the workflow run so far, in order
  returned,           \* what process_log_entry returned: None or Some(state)
  wpc,                \* position of process_log_entry: "call", the node
                      \* to run next, "END" | "returned"
  drnd,               \* the random draws of one DummyMetricsGenerator batch
  dummy_batch,        \* what DummyMetricsGenerator.generate_metrics_batch returned
  dpc                 \* position of that call: "call" | "done"

cvars == <<component, metric_name, value, duration_minutes, result, pc>>
pvars == <<anomaly_events, batches, hours, patterns, report, qpc>>
gvars == <<rnd, batch, gpc>>
tvars == <<metrics_1min, trend, tpc>>
ivars == <<running, ingestion_count, anomaly_count, generated, stored, failed,
           platform_metrics, resolves, resolve_at, log, ipc>>
svars == <<store, active_events, check_component, response, spc>>
rvars == <<clock, events, pending, txn_now, rpc>>
mvars == <<host, MONITORING_ACTIVE, api_MONITORING_ACTIVE, LATEST_ANOMALIES,
           monitor_iterations, stopped_at, mpc>>
wvars == <<log_entry, state, trace, returned, wpc>>
dvars == <<drnd, dummy_batch, dpc>>
vars == <<component, metric_name, value, duration_minutes, result, pc,
          anomaly_events, batches, hours, patterns, report, qpc,
          rnd, batch, gpc, metrics_1min, trend, tpc,
          running, ingestion_count, anomaly_count, generated, stored, failed,
          platform_metrics, resolves, resolve_at, log, ipc,
          store, active_events, check_component, response, spc,
          clock, events, pending, txn_now, rpc,
          host, MONITORING_ACTIVE, api_MONITORING_ACTIVE, LATEST_ANOMALIES,
          monitor_iterations, stopped_at, mpc,
          log_entry, state, trace, returned, wpc,
          drnd, dummy_batch, dpc>>

---------------------------------------------------------------------------
(* Number representation *)

H(n) == n * 100
B(n) == n
MiB(n) == n
Inf == 2147483647

---------------------------------------------------------------------------
(* The catalog: platform_metrics_definition.py, the three dicts.  The      *)
(* 'description' key is not read by any code and is left out.  No          *)
(* definition of the source has a 'threshold_direction' key.              *)

KAFKA_METRICS ==
  [
    kafka_broker_under_replicated_partitions |->
      [unit |-> "count",
       normal_range |-> [min |-> H(0), max |-> H(0)],
       warning_threshold |-> H(1),
       critical_threshold |-> H(5),
       anomaly_conditions |-> <<"value > 0 for more than 5 minutes">>],
    kafka_broker_offline_partitions |->
      [unit |-> "count",
       normal_range |-> [min |-> H(0), max |-> H(0)],
       warning_threshold |-> H(1),
       critical_threshold |-> H(1),
       anomaly_conditions |-> <<"value > 0">>],
    kafka_broker_messages_in_per_sec |->
      [unit |-> "msg/sec",
       normal_range |-> [min |-> H(1000), max |-> H(50000)],
       warning_threshold |-> H(75000),
       critical_threshold |-> H(100000),
       anomaly_conditions |-> <<"sudden drop > 50% from baseline", "value < 100 (unless during maintenance)", "sustained spike > 2x normal peak">>],
    kafka_broker_bytes_in_per_sec |->
      [unit |-> "bytes/sec",
       normal_range |-> [min |-> B(1048576), max |-> B(104857600)],
       warning_threshold |-> B(157286400),
       critical_threshold |-> B(209715200),
       anomaly_conditions |-> <<"rate > network capacity", "sudden drop > 70%">>],
    kafka_broker_bytes_out_per_sec |->
      [unit |-> "bytes/sec",
       normal_range |-> [min |-> B(1048576), max |-> B(209715200)],
       warning_threshold |-> B(314572800),
       critical_threshold |-> B(419430400),
       anomaly_conditions |-> <<"rate > 2x input rate for extended period">>],
    kafka_broker_request_handler_idle_percent |->
      [unit |-> "%",
       normal_range |-> [min |-> H(20), max |-> H(80)],
       warning_threshold |-> H(10),
       critical_threshold |-> H(5),
       anomaly_conditions |-> <<"value < 10% indicates overload">>],
    kafka_broker_network_processor_idle_percent |->
      [unit |-> "%",
       normal_range |-> [min |-> H(30), max |-> H(90)],
       warning_threshold |-> H(20),
       critical_threshold |-> H(10),
       anomaly_conditions |-> <<"value < 20% indicates network bottleneck">>],
    kafka_consumer_lag |->
      [unit |-> "messages",
       normal_range |-> [min |-> H(0), max |-> H(10000)],
       warning_threshold |-> H(50000),
       critical_threshold |-> H(100000),
       anomaly_conditions |-> <<"continuously increasing lag", "lag > 1 million messages", "lag growth rate > 1000 msg/sec">>],
    kafka_consumer_lag_seconds |->
      [unit |-> "seconds",
       normal_range |-> [min |-> H(0), max |-> H(60)],
       warning_threshold |-> H(300),
       critical_threshold |-> H(600),
       anomaly_conditions |-> <<"lag > 10 minutes for real-time processing">>],
    kafka_partition_leader_election_rate |->
      [unit |-> "elections/sec",
       normal_range |-> [min |-> H(0), max |-> 10 (* 0.1 *)],
       warning_threshold |-> 50 (* 0.5 *),
       critical_threshold |-> H(1),
       anomaly_conditions |-> <<"frequent elections indicate instability">>],
    kafka_partition_isr_shrink_rate |->
      [unit |-> "shrinks/sec",
       normal_range |-> [min |-> H(0), max |-> 1 (* 0.01 *)],
       warning_threshold |-> 10 (* 0.1 *),
       critical_threshold |-> 50 (* 0.5 *),
       anomaly_conditions |-> <<"high shrink rate indicates replica issues">>],
    kafka_jvm_heap_usage |->
      [unit |-> "%",
       normal_range |-> [min |-> H(30), max |-> H(70)],
       warning_threshold |-> H(80),
       critical_threshold |-> H(90),
       anomaly_conditions |-> <<"sustained > 85%", "frequent GC pauses">>],
    kafka_jvm_gc_pause_time |->
      [unit |-> "ms",
       normal_range |-> [min |-> H(0), max |-> H(100)],
       warning_threshold |-> H(200),
       critical_threshold |-> H(500),
       anomaly_conditions |-> <<"pause > 1 second", "frequent long pauses">>]
  ]

FLINK_METRICS ==
  [
    flink_jobmanager_job_uptime |->
      [unit |-> "seconds",
       normal_range |-> [min |-> H(3600), max |-> Inf],
       warning_threshold |-> H(1800),
       critical_threshold |-> H(300),
       anomaly_conditions |-> <<"frequent restarts", "uptime < 5 minutes">>],
    flink_jobmanager_job_restarts |->
      [unit |-> "count",
       normal_range |-> [min |-> H(0), max |-> H(2)],
       warning_threshold |-> H(5),
       critical_threshold |-> H(10),
       anomaly_conditions |-> <<"restart loop", "> 3 restarts in 10 minutes">>],
    flink_jobmanager_checkpoint_duration |->
      [unit |-> "ms",
       normal_range |-> [min |-> H(100), max |-> H(5000)],
       warning_threshold |-> H(10000),
       critical_threshold |-> H(30000),
       anomaly_conditions |-> <<"checkpoint timeout", "duration > 1 minute", "increasing trend">>],
    flink_jobmanager_checkpoint_size |->
      [unit |-> "bytes",
       normal_range |-> [min |-> MiB(1), max |-> MiB(1024)],
       warning_threshold |-> MiB(5120),
       critical_threshold |-> MiB(10240),
       anomaly_conditions |-> <<"rapid growth", "size > 10GB">>],
    flink_jobmanager_checkpoint_failure_rate |->
      [unit |-> "%",
       normal_range |-> [min |-> H(0), max |-> H(5)],
       warning_threshold |-> H(10),
       critical_threshold |-> H(20),
       anomaly_conditions |-> <<"> 20% failure rate", "consecutive failures">>],
    flink_taskmanager_heap_used |->
      [unit |-> "%",
       normal_range |-> [min |-> H(20), max |-> H(70)],
       warning_threshold |-> H(80),
       critical_threshold |-> H(90),
       anomaly_conditions |-> <<"memory leak pattern", "OOM risk">>],
    flink_taskmanager_cpu_load |->
      [unit |-> "%",
       normal_range |-> [min |-> H(20), max |-> H(70)],
       warning_threshold |-> H(85),
       critical_threshold |-> H(95),
       anomaly_conditions |-> <<"sustained > 90%", "uneven distribution">>],
    flink_taskmanager_network_io |->
      [unit |-> "MB/s",
       normal_range |-> [min |-> H(10), max |-> H(500)],
       warning_threshold |-> H(800),
       critical_threshold |-> H(1000),
       anomaly_conditions |-> <<"network saturation", "sudden drops">>],
    flink_task_backpressure |->
      [unit |-> "ratio",
       normal_range |-> [min |-> H(0), max |-> 10 (* 0.1 *)],
       warning_threshold |-> 50 (* 0.5 *),
       critical_threshold |-> 80 (* 0.8 *),
       anomaly_conditions |-> <<"high backpressure > 0.5", "cascading backpressure", "persistent backpressure">>],
    flink_task_records_lag |->
      [unit |-> "records",
       normal_range |-> [min |-> H(0), max |-> H(10000)],
       warning_threshold |-> H(100000),
       critical_threshold |-> H(1000000),
       anomaly_conditions |-> <<"continuously increasing", "lag > capacity">>],
    flink_task_throughput |->
      [unit |-> "records/sec",
       normal_range |-> [min |-> H(1000), max |-> H(100000)],
       warning_threshold |-> H(150000),
       critical_threshold |-> H(200000),
       anomaly_conditions |-> <<"throughput < 100 records/sec", "sudden drop > 50%", "zero throughput">>],
    flink_task_latency |->
      [unit |-> "ms",
       normal_range |-> [min |-> H(10), max |-> H(100)],
       warning_threshold |-> H(500),
       critical_threshold |-> H(1000),
       anomaly_conditions |-> <<"latency > SLA", "increasing trend">>],
    flink_watermark_lag |->
      [unit |-> "ms",
       normal_range |-> [min |-> H(0), max |-> H(1000)],
       warning_threshold |-> H(5000),
       critical_threshold |-> H(10000),
       anomaly_conditions |-> <<"watermark stuck", "lag > window size">>]
  ]

CLICKHOUSE_METRICS ==
  [
    clickhouse_query_duration |->
      [unit |-> "ms",
       normal_range |-> [min |-> H(1), max |-> H(1000)],
       warning_threshold |-> H(5000),
       critical_threshold |-> H(10000),
       anomaly_conditions |-> <<"query timeout", "duration > 30 seconds", "10x slower than baseline">>],
    clickhouse_queries_per_second |->
      [unit |-> "queries/sec",
       normal_range |-> [min |-> H(10), max |-> H(1000)],
       warning_threshold |-> H(2000),
       critical_threshold |-> H(3000),
       anomaly_conditions |-> <<"rate exceeds connection pool", "sudden spike">>],
    clickhouse_slow_queries |->
      [unit |-> "count/min",
       normal_range |-> [min |-> H(0), max |-> H(5)],
       warning_threshold |-> H(10),
       critical_threshold |-> H(20),
       anomaly_conditions |-> <<"> 20 slow queries per minute">>],
    clickhouse_failed_queries |->
      [unit |-> "%",
       normal_range |-> [min |-> H(0), max |-> H(1)],
       warning_threshold |-> H(5),
       critical_threshold |-> H(10),
       anomaly_conditions |-> <<"error rate > 10%", "specific error patterns">>],
    clickhouse_disk_usage |->
      [unit |-> "%",
       normal_range |-> [min |-> H(20), max |-> H(70)],
       warning_threshold |-> H(80),
       critical_threshold |-> H(90),
       anomaly_conditions |-> <<"rapid growth", "approaching capacity">>],
    clickhouse_parts_count |->
      [unit |-> "count",
       normal_range |-> [min |-> H(100), max |-> H(10000)],
       warning_threshold |-> H(50000),
       critical_threshold |-> H(100000),
       anomaly_conditions |-> <<"too many parts", "merge throttling">>],
    clickhouse_merge_time |->
      [unit |-> "seconds",
       normal_range |-> [min |-> 10 (* 0.1 *), max |-> H(10)],
       warning_threshold |-> H(30),
       critical_threshold |-> H(60),
       anomaly_conditions |-> <<"merge taking > 1 minute", "merge queue growing">>],
    clickhouse_replication_lag |->
      [unit |-> "seconds",
       normal_range |-> [min |-> H(0), max |-> H(5)],
       warning_threshold |-> H(30),
       critical_threshold |-> H(60),
       anomaly_conditions |-> <<"lag > 1 minute", "increasing lag">>],
    clickhouse_replication_queue_size |->
      [unit |-> "tasks",
       normal_range |-> [min |-> H(0), max |-> H(100)],
       warning_threshold |-> H(500),
       critical_threshold |-> H(1000),
       anomaly_conditions |-> <<"queue growing", "stuck tasks">>],
    clickhouse_memory_usage |->
      [unit |-> "%",
       normal_range |-> [min |-> H(20), max |-> H(60)],
       warning_threshold |-> H(80),
       critical_threshold |-> H(90),
       anomaly_conditions |-> <<"OOM killer risk", "memory leak">>],
    clickhouse_memory_tracked |->
      [unit |-> "GB",
       normal_range |-> [min |-> H(1), max |-> H(50)],
       warning_threshold |-> H(100),
       critical_threshold |-> H(150),
       anomaly_conditions |-> <<"exceeds available RAM", "runaway query">>],
    clickhouse_connections |->
      [unit |-> "count",
       normal_range |-> [min |-> H(10), max |-> H(500)],
       warning_threshold |-> H(800),
       critical_threshold |-> H(1000),
       anomaly_conditions |-> <<"connection pool exhaustion", "connection leaks">>],
    clickhouse_http_connections |->
      [unit |-> "count",
       normal_range |-> [min |-> H(5), max |-> H(200)],
       warning_threshold |-> H(400),
       critical_threshold |-> H(500),
       anomaly_conditions |-> <<"HTTP endpoint overload">>],
    clickhouse_inserts_per_second |->
      [unit |-> "rows/sec",
       normal_range |-> [min |-> H(10000), max |-> H(1000000)],
       warning_threshold |-> H(2000000),
       critical_threshold |-> H(3000000),
       anomaly_conditions |-> <<"insert bottleneck", "batch size issues">>],
    clickhouse_insert_latency |->
      [unit |-> "ms",
       normal_range |-> [min |-> H(10), max |-> H(100)],
       warning_threshold |-> H(500),
       critical_threshold |-> H(1000),
       anomaly_conditions |-> <<"high latency inserts", "blocking inserts">>],
    clickhouse_background_pool_tasks |->
      [unit |-> "count",
       normal_range |-> [min |-> H(0), max |-> H(50)],
       warning_threshold |-> H(100),
       critical_threshold |-> H(200),
       anomaly_conditions |-> <<"pool saturation", "stuck tasks">>]
  ]

---------------------------------------------------------------------------
(* is_anomalous, platform_metrics_definition.py                            *)

DefaultDuration == 5
DurationThreshold == 5

metrics_dict ==
  [kafka |-> KAFKA_METRICS, flink |-> FLINK_METRICS,
   clickhouse |-> CLICKHOUSE_METRICS]

\* dict.get(key, default)
Get(d, key, default) == IF key \in DOMAIN d THEN d[key] ELSE default

\* None is <<>>, any other value x is <<x>>
None == <<>>
Some(x) == <<x>>

Verdict(is_anomaly, severity, reason) ==
  [is_anomaly |-> is_anomaly, severity |-> severity, reason |-> reason]

\* A helper below yields None when the code falls through and Some(r)
\* when the code returns the record r.

\* variant: the range test excludes its two ends
InNormalRangeStrict(normal_range, v) == normal_range.min < v /\ v < normal_range.max

\* normal_range['min'] <= value <= normal_range['max']
InNormalRange(normal_range, v) == normal_range.min <= v /\ v <= normal_range.max

\* variant: the critical threshold is compared strictly
AboveVerdictStrictCritical(metric_def, v) ==
  IF v >= metric_def.warning_threshold
  THEN IF v > Get(metric_def, "critical_threshold", Inf)
       THEN Some(Verdict(TRUE, "critical",
                         <<"Value ", v, " exceeds critical threshold ",
                           metric_def.critical_threshold>>))
       ELSE Some(Verdict(TRUE, "warning",
                         <<"Value ", v, " exceeds warning threshold ",
                           metric_def.warning_threshold>>))
  ELSE <<>>

\* the branch threshold_direction == 'above'
AboveVerdict(metric_def, v) ==
  IF v >= metric_def.warning_threshold
  THEN IF v >= Get(metric_def, "critical_threshold", Inf)
       THEN Some(Verdict(TRUE, "critical",
                         <<"Value ", v, " exceeds critical threshold ",
                           metric_def.critical_threshold>>))
       ELSE Some(Verdict(TRUE, "warning",
                         <<"Value ", v, " exceeds warning threshold ",
                           metric_def.warning_threshold>>))
  ELSE <<>>

\* the branch 'else:  # below threshold'
BelowVerdict(metric_def, v) ==
  IF v <= metric_def.warning_threshold
  THEN IF v <= Get(metric_def, "critical_threshold", 0)
       THEN Some(Verdict(TRUE, "critical",
                         <<"Value ", v, " below critical threshold ",
                           metric_def.critical_threshold>>))
       ELSE Some(Verdict(TRUE, "warning",
                         <<"Value ", v, " below warning threshold ",
                           metric_def.warning_threshold>>))
  ELSE <<>>

\* metric_def.get('threshold_direction', 'above')
Direction(metric_def) == Get(metric_def, "threshold_direction", "above")

\* '# Check warning threshold'
ThresholdVerdict(metric_def, v) ==
  IF "warning_threshold" \in DOMAIN metric_def
  THEN IF Direction(metric_def) = "above"
       THEN AboveVerdict(metric_def, v)
       ELSE BelowVerdict(metric_def, v)
  ELSE <<>>

\* variant: the duration test is duration_minutes >= 5
ConditionVerdictInclusive(metric_def, duration) ==
  LET conds == Get(metric_def, "anomaly_conditions", <<>>)
  IN IF Len(conds) > 0 /\ duration >= DurationThreshold
     THEN Some(Verdict(TRUE, "warning", <<"Condition detected: ", conds[1]>>))
     ELSE <<>>

\* '# Check specific anomaly conditions': the loop returns at the first
\* condition for which duration_minutes > 5, a test that does not read the
\* condition.
ConditionVerdict(metric_def, duration) ==
  LET conds == Get(metric_def, "anomaly_conditions", <<>>)
      hits == {i \in 1..Len(conds) : duration > DurationThreshold}
  IN IF hits # {}
     THEN LET first == CHOOSE i \in hits : \A j \in hits : i <= j
          IN Some(Verdict(TRUE, "warning",
                          <<"Condition detected: ", conds[first]>>))
     ELSE <<>>

\* the body of is_anomalous once the definition is found
Evaluate(metric_def, v, duration) ==
  IF InNormalRange(metric_def.normal_range, v)
  THEN Verdict(FALSE, "normal", <<"Within normal range">>)
  ELSE LET t == ThresholdVerdict(metric_def, v)
       IN IF t # <<>>
          THEN t[1]
          ELSE LET c == ConditionVerdict(metric_def, duration)
               IN IF c # <<>>
                  THEN c[1]
                  ELSE Verdict(FALSE, "normal", <<"No anomaly detected">>)

\* variant: the metric is looked up in one merged catalog, whatever the
\* component
is_anomalous_MergedCatalog(comp, name, v, duration) ==
  IF \E k \in DOMAIN metrics_dict : name \in DOMAIN metrics_dict[k]
  THEN LET k == CHOOSE c \in DOMAIN metrics_dict : name \in DOMAIN metrics_dict[c]
       IN Evaluate(metrics_dict[k][name], v, duration)
  ELSE Verdict(FALSE, "normal", <<"Unknown metric">>)

is_anomalous(comp, name, v, duration) ==
  IF comp \notin DOMAIN metrics_dict
  THEN Verdict(FALSE, "normal", <<"Unknown component">>)
  ELSE IF name \notin DOMAIN metrics_dict[comp]
       THEN Verdict(FALSE, "normal", <<"Unknown metric">>)
       ELSE Evaluate(metrics_dict[comp][name], v, duration)

---------------------------------------------------------------------------
(* Inputs of the classifier calls *)

Delta == 1            \* values are drawn within Delta units of each boundary
DurationSpread == 1   \* durations are drawn within DurationSpread of the default

Components == DOMAIN metrics_dict
UnknownComponent == "redis"
UnknownMetric == "unknown_metric"

CatalogNames == UNION {DOMAIN metrics_dict[c] : c \in Components}

\* the definition of a catalog metric, in the dict that declares it
DefOf(name) ==
  LET c == CHOOSE k \in Components : name \in DOMAIN metrics_dict[k]
  IN metrics_dict[c][name]

ComponentOf(name) == CHOOSE k \in Components : name \in DOMAIN metrics_dict[k]

\* the calls of test_anomaly_scenarios: <<component, metric, value, duration>>
TEST_CASES ==
  { <<"kafka", "kafka_broker_under_replicated_partitions", H(0), DefaultDuration>>,
    <<"kafka", "kafka_broker_under_replicated_partitions", H(5), DefaultDuration>>,
    <<"kafka", "kafka_consumer_lag", H(5000), DefaultDuration>>,
    <<"kafka", "kafka_consumer_lag", H(75000), DefaultDuration>>,
    <<"kafka", "kafka_consumer_lag", H(150000), DefaultDuration>>,
    <<"kafka", "kafka_jvm_heap_usage", H(60), DefaultDuration>>,
    <<"kafka", "kafka_jvm_heap_usage", H(85), DefaultDuration>>,
    <<"kafka", "kafka_jvm_heap_usage", H(92), DefaultDuration>>,
    <<"flink", "flink_jobmanager_job_restarts", H(1), DefaultDuration>>,
    <<"flink", "flink_jobmanager_job_restarts", H(7), DefaultDuration>>,
    <<"flink", "flink_jobmanager_job_restarts", H(15), DefaultDuration>>,
    <<"flink", "flink_task_backpressure", 5 (* 0.05 *), DefaultDuration>>,
    <<"flink", "flink_task_backpressure", 60 (* 0.6 *), DefaultDuration>>,
    <<"flink", "flink_task_backpressure", 90 (* 0.9 *), DefaultDuration>>,
    <<"flink", "flink_task_throughput", H(50000), DefaultDuration>>,
    <<"flink", "flink_task_throughput", H(50), 10>>,
    <<"clickhouse", "clickhouse_query_duration", H(500), DefaultDuration>>,
    <<"clickhouse", "clickhouse_query_duration", H(7000), DefaultDuration>>,
    <<"clickhouse", "clickhouse_query_duration", H(15000), DefaultDuration>>,
    <<"clickhouse", "clickhouse_failed_queries", 50 (* 0.5 *), DefaultDuration>>,
    <<"clickhouse", "clickhouse_failed_queries", H(7), DefaultDuration>>,
    <<"clickhouse", "clickhouse_failed_queries", H(15), DefaultDuration>>,
    <<"clickhouse", "clickhouse_replication_lag", H(3), DefaultDuration>>,
    <<"clickhouse", "clickhouse_replication_lag", H(45), DefaultDuration>>,
    <<"clickhouse", "clickhouse_replication_lag", H(90), DefaultDuration>>,
    <<"clickhouse", "clickhouse_disk_usage", H(65), DefaultDuration>>,
    <<"clickhouse", "clickhouse_disk_usage", H(85), DefaultDuration>>,
    <<"clickhouse", "clickhouse_disk_usage", H(93), DefaultDuration>> }

Near(x) == IF x = Inf THEN {Inf} ELSE (x - Delta)..(x + Delta)

\* the finite boundaries of a definition
Boundaries(metric_def) ==
  {metric_def.normal_range.min, metric_def.normal_range.max,
   metric_def.warning_threshold, metric_def.critical_threshold} \ {Inf}

\* Values drawn for a metric: around every boundary, every midpoint of two
\* boundaries, zero, twice every boundary, infinity where the range is
\* open-ended, and the values of the test calls.
ValuesOf(name) ==
  IF name \in CatalogNames
  THEN LET bs == Boundaries(DefOf(name))
       IN UNION {Near(b) : b \in bs}
          \cup {(a + b) \div 2 : a \in bs, b \in bs}
          \cup {2 * b : b \in bs}
          \cup {0}
          \cup ({DefOf(name).normal_range.max} \cap {Inf})
          \cup {tc[3] : tc \in {t \in TEST_CASES : t[2] = name}}
  ELSE (0 - Delta)..Delta \cup {H(1000000)}

Durations ==
  (DefaultDuration - DurationSpread)..(DefaultDuration + DurationSpread)
  \cup {tc[4] : tc \in TEST_CASES}

NoResult == Verdict(FALSE, "", <<>>)

---------------------------------------------------------------------------
(* Specification of the classifier: a call with drawn arguments *)

ClassifyInit ==
  /\ component \in Components \cup {UnknownComponent}
  /\ metric_name \in CatalogNames \cup {UnknownMetric}
  /\ value \in ValuesOf(metric_name)
  /\ duration_minutes \in Durations
  /\ result = NoResult
  /\ pc = "call"

\* result = is_anomalous(component, metric_name, value, duration_minutes)
Classify ==
  /\ pc = "call"
  /\ result' = is_anomalous(component, metric_name, value, duration_minutes)
  /\ pc' = "done"
  /\ UNCHANGED <<component, metric_name, value, duration_minutes>>

---------------------------------------------------------------------------
(* get_cross_component_anomalies, platform_monitoring_agent.py             *)
(* Time is counted in minutes.  A row of anomaly_events carries the        *)
(* columns the statement can tell apart: time, component, severity.        *)

BucketMinutes == 5
MinutesPerHour == 60
ResourceThreshold == 10

DefaultHours == 12

Now == 11         \* NOW() of the statement, in minutes
MaxBatches == 2   \* committed insertions into anomaly_events
BulkRows == 9     \* rows per component of a large insertion

Severities == {"warning", "critical"}

\* Rows are drawn one bucket back, one minute back and at NOW().
EventTimes == {Now - BucketMinutes, Now - 1, Now}
EventRows == [time : EventTimes, component : Components, severity : Severities]

\* the sum of f[x] over x in S
RECURSIVE SumOver(_, _)
SumOver(f, S) ==
  IF S = {} THEN 0
  ELSE LET x == CHOOSE y \in S : TRUE
       IN f[x] + SumOver(f, S \ {x})

\* the table is a bag of rows: row -> number of copies
Copies(table, r) == IF r \in DOMAIN table THEN table[r] ELSE 0
EmptyTable == [r \in {} |-> 0]
\* n more copies of every row of the set rs
Insert(table, rs, n) ==
  [x \in DOMAIN table \cup rs |->
     Copies(table, x) + (IF x \in rs THEN n ELSE 0)]

\* time_bucket('5 minutes', time)
time_bucket(t) == (t \div BucketMinutes) * BucketMinutes

\* WHERE time >= NOW() - INTERVAL '%s hours'
InLookback(r, h) == r.time >= Now - h * MinutesPerHour

\* COUNT(*) of the rows of S
CountRows(table, S) == SumOver(table, S)

\* the CTE time_windows: GROUP BY window, component
time_windows(table, h) ==
  LET rows == {r \in DOMAIN table : InLookback(r, h)}
      groups == {<<time_bucket(r.time), r.component>> : r \in rows}
  IN {[window |-> g[1], component |-> g[2],
       anomaly_count |->
         CountRows(table, {r \in rows : time_bucket(r.time) = g[1]
                                        /\ r.component = g[2]})] : g \in groups}

\* ORDER BY component: the collation order of the three names
ComponentOrder == <<"clickhouse", "flink", "kafka">>

\* SUM(anomaly_count) over rows of time_windows
SumCounts(S) == SumOver([r \in S |-> r.anomaly_count], S)

\* variant: HAVING COUNT(DISTINCT component) > 0
HavingAny(affected_components) == affected_components > 0

\* HAVING COUNT(DISTINCT component) > 1
Having(affected_components) == affected_components > 1

\* the outer SELECT: GROUP BY window, HAVING, without the ORDER BY
GroupByWindow(tw) ==
  LET row(w) ==
        LET g == {r \in tw : r.window = w}
            cs == {r.component : r \in g}
        IN [window |-> w,
            affected_components |-> Cardinality(cs),
            total_anomalies |-> SumCounts(g),
            components |-> SelectSeq(ComponentOrder, LAMBDA c : c \in cs)]
  IN {p \in {row(w) : w \in {r.window : r \in tw}} :
        Having(p.affected_components)}

\* ORDER BY window DESC
RECURSIVE OrderByWindowDesc(_)
OrderByWindowDesc(S) ==
  IF S = {} THEN <<>>
  ELSE LET m == CHOOSE p \in S : \A q \in S : q.window <= p.window
       IN <<m>> \o OrderByWindowDesc(S \ {m})

\* cur.execute(query, (hours,)); cur.fetchall()
FetchPatterns(table, h) == OrderByWindowDesc(GroupByWindow(time_windows(table, h)))

\* x in components, components a list
InList(x, list) == \E i \in 1..Len(list) : list[i] = x

\* variant: the anomaly count is tested before the components
PatternTypeCountFirst(pattern) ==
  IF pattern.total_anomalies > ResourceThreshold
  THEN "RESOURCE EXHAUSTION"
  ELSE IF InList("kafka", pattern.components) /\ InList("flink", pattern.components)
       THEN IF InList("clickhouse", pattern.components)
            THEN "CASCADE FAILURE"
            ELSE "PIPELINE ISSUE"
       ELSE "CORRELATED ANOMALY"

\* variant: the anomaly count is compared with >= 10
PatternTypeInclusive(pattern) ==
  IF InList("kafka", pattern.components) /\ InList("flink", pattern.components)
  THEN IF InList("clickhouse", pattern.components)
       THEN "CASCADE FAILURE"
       ELSE "PIPELINE ISSUE"
  ELSE IF pattern.total_anomalies >= ResourceThreshold
       THEN "RESOURCE EXHAUSTION"
       ELSE "CORRELATED ANOMALY"

\* '# Detect pattern type'
PatternType(pattern) ==
  IF InList("kafka", pattern.components) /\ InList("flink", pattern.components)
  THEN IF InList("clickhouse", pattern.components)
       THEN "CASCADE FAILURE"
       ELSE "PIPELINE ISSUE"
  ELSE IF pattern.total_anomalies > ResourceThreshold
       THEN "RESOURCE EXHAUSTION"
       ELSE "CORRELATED ANOMALY"

\* the loop 'for pattern in patterns' and the summary
RECURSIVE CountType(_, _)
CountType(ps, type) ==
  IF ps = <<>> THEN 0
  ELSE (IF PatternType(Head(ps)) = type THEN 1 ELSE 0) + CountType(Tail(ps), type)

BuildReport(ps) ==
  IF ps = <<>>
  THEN [status |-> "no patterns", lines |-> <<>>, cascade_failures |-> 0,
        resource_exhaustions |-> 0, total |-> 0]
  ELSE [status |-> "patterns",
        lines |-> [i \in 1..Len(ps) |->
                     [pattern_type |-> PatternType(ps[i]),
                      window |-> ps[i].window,
                      affected |-> ps[i].components,
                      total_anomalies |-> ps[i].total_anomalies]],
        cascade_failures |-> CountType(ps, "CASCADE FAILURE"),
        resource_exhaustions |-> CountType(ps, "RESOURCE EXHAUSTION"),
        total |-> Len(ps)]

NoReport ==
  [status |-> "", lines |-> <<>>, cascade_failures |-> 0,
   resource_exhaustions |-> 0, total |-> 0]
ErrorReport ==
  [status |-> "error", lines |-> <<>>, cascade_failures |-> 0,
   resource_exhaustions |-> 0, total |-> 0]

PatternInit ==
  /\ anomaly_events = EmptyTable
  /\ batches = 0
  /\ hours = 0
  /\ patterns = <<>>
  /\ report = NoReport
  /\ qpc = "idle"

\* One committed insertion of anomaly rows: the rows of a batch share its
\* timestamp; here they also share a severity, and every affected
\* component gets n rows.  A report of an earlier call no longer describes
\* the table and is dropped.
InsertAnomalies ==
  /\ batches < MaxBatches
  /\ \E t \in EventTimes, cs \in SUBSET Components \ {{}},
        s \in Severities, n \in {1, BulkRows} :
       anomaly_events' =
         Insert(anomaly_events,
                {[time |-> t, component |-> c, severity |-> s] : c \in cs}, n)
  /\ batches' = batches + 1
  /\ hours' = 0
  /\ patterns' = <<>>
  /\ report' = NoReport
  /\ qpc' = "idle"

\* a call of get_cross_component_anomalies(hours) that reaches the return
\* of the try block
GetCrossComponentAnomalies ==
  /\ qpc = "idle"
  /\ \E h \in {0, DefaultHours} :
       /\ hours' = h
       /\ patterns' = FetchPatterns(anomaly_events, h)
       /\ report' = BuildReport(FetchPatterns(anomaly_events, h))
  /\ qpc' = "done"
  /\ UNCHANGED <<anomaly_events, batches>>

\* a call whose connection or statement raises: the except branch
GetCrossComponentAnomaliesError ==
  /\ qpc = "idle"
  /\ \E h \in {0, DefaultHours} : hours' = h
  /\ patterns' = <<>>
  /\ report' = ErrorReport
  /\ qpc' = "done"
  /\ UNCHANGED <<anomaly_events, batches>>

---------------------------------------------------------------------------
(* PlatformMetricsGenerator, platform_metrics_generator.py                 *)
(* Every call of the random module is a draw from a small set; the draws   *)
(* of one batch are the record rnd.  The timestamp and the constant        *)
(* environment and cluster fields of a batch are not read by anything      *)
(* modelled here and are left out.                                         *)

\* list(X_METRICS.items()): the names in the order the dicts declare them
METRIC_ORDER ==
  [kafka |->
     <<"kafka_broker_under_replicated_partitions",
       "kafka_broker_offline_partitions",
       "kafka_broker_messages_in_per_sec",
       "kafka_broker_bytes_in_per_sec",
       "kafka_broker_bytes_out_per_sec",
       "kafka_broker_request_handler_idle_percent",
       "kafka_broker_network_processor_idle_percent",
       "kafka_consumer_lag",
       "kafka_consumer_lag_seconds",
       "kafka_partition_leader_election_rate",
       "kafka_partition_isr_shrink_rate",
       "kafka_jvm_heap_usage",
       "kafka_jvm_gc_pause_time">>,
   flink |->
     <<"flink_jobmanager_job_uptime",
       "flink_jobmanager_job_restarts",
       "flink_jobmanager_checkpoint_duration",
       "flink_jobmanager_checkpoint_size",
       "flink_jobmanager_checkpoint_failure_rate",
       "flink_taskmanager_heap_used",
       "flink_taskmanager_cpu_load",
       "flink_taskmanager_network_io",
       "flink_task_backpressure",
       "flink_task_records_lag",
       "flink_task_throughput",
       "flink_task_latency",
       "flink_watermark_lag">>,
   clickhouse |->
     <<"clickhouse_query_duration",
       "clickhouse_queries_per_second",
       "clickhouse_slow_queries",
       "clickhouse_failed_queries",
       "clickhouse_disk_usage",
       "clickhouse_parts_count",
       "clickhouse_merge_time",
       "clickhouse_replication_lag",
       "clickhouse_replication_queue_size",
       "clickhouse_memory_usage",
       "clickhouse_memory_tracked",
       "clickhouse_connections",
       "clickhouse_http_connections",
       "clickhouse_inserts_per_second",
       "clickhouse_insert_latency",
       "clickhouse_background_pool_tasks">>]

MaxSampleOffset == 2   \* where the sample of normal metrics may start
MaxSelectOffset == 5   \* where the sample of anomalous metrics may start

NormalSampleSize == 8
MinAnomalies == 2
MaxAnomalies == 4

\* random.sample(list(items), k), drawn among the runs of k consecutive
\* names of the list that start after offset names, wrapping around
SampleAt(list, k, offset) ==
  {list[((offset + i) % Len(list)) + 1] : i \in 0..(k - 1)}

Min2(a, b) == IF a <= b THEN a ELSE b
Max2(a, b) == IF a >= b THEN a ELSE b

\* the units for which 'rate' in unit or 'sec' in unit
RateUnits ==
  {"bytes/sec", "elections/sec", "msg/sec", "queries/sec", "records/sec",
   "rows/sec", "seconds", "shrinks/sec"}

\* the value random.lognormvariate / random.gauss yields before clamping:
\* one hundredth below the range, its middle, or one hundredth above it.
\* With an infinite max the mean is infinite: the log-normal branch yields
\* inf, the Gaussian branch inf, -inf or nan (clamped like a low value).
Sampled(metric_def, position) ==
  LET lo == metric_def.normal_range.min
      hi == metric_def.normal_range.max
  IN IF hi = Inf
     THEN IF metric_def.unit \in RateUnits \/ position # "below"
          THEN Inf ELSE lo - 1
     ELSE CASE position = "below" -> lo - 1
            [] position = "mid" -> (lo + hi) \div 2
            [] position = "above" -> hi + 1

\* variant: the sampled value is returned without clamping
generate_normal_metric_Unclamped(metric_def, position) ==
  Sampled(metric_def, position)

\* generate_normal_metric: the sampled value, clamped to the normal range;
\* round(value, 2) leaves a value in hundredths as it is
generate_normal_metric(metric_def, position) ==
  LET lo == metric_def.normal_range.min
      hi == metric_def.normal_range.max
  IN Max2(lo, Min2(Sampled(metric_def, position), hi))

\* round(x * f / 100, 2) for x >= 0 in model units and a factor of f
\* hundredths, computed without leaving the 32-bit range
Times(x, f) ==
  IF x = Inf THEN Inf
  ELSE (x \div 100) * f + ((x % 100) * f + 50) \div 100

\* random.uniform(a, b) for a, b in hundredths: the ends and the middle
Uniform(a, b, level) ==
  CASE level = 0 -> a
    [] level = 1 -> (a + b) \div 2
    [] level = 2 -> b

\* generate_anomalous_metric
generate_anomalous_metric(metric_def, severity, level, coin) ==
  LET v ==
        IF severity = "critical"
        THEN IF "critical_threshold" \in DOMAIN metric_def
             THEN IF Direction(metric_def) = "above"
                  THEN Times(metric_def.critical_threshold, Uniform(110, 200, level))
                  ELSE Times(metric_def.critical_threshold, Uniform(10, 50, level))
             ELSE IF coin
                  THEN Times(metric_def.normal_range.max, Uniform(200, 500, level))
                  ELSE Times(metric_def.normal_range.min, Uniform(1, 10, level))
        ELSE IF "warning_threshold" \in DOMAIN metric_def
             THEN IF Direction(metric_def) = "above"
                  THEN Times(metric_def.warning_threshold, Uniform(100, 130, level))
                  ELSE Times(metric_def.warning_threshold, Uniform(70, 100, level))
             ELSE IF coin
                  THEN Times(metric_def.normal_range.max, Uniform(120, 150, level))
                  ELSE Times(metric_def.normal_range.min, Uniform(50, 80, level))
  IN Max2(0, v)

\* generate_cascade_failure_metrics
generate_cascade_failure_metrics ==
  [kafka |->
     [kafka_broker_under_replicated_partitions |-> H(15),
      kafka_broker_offline_partitions |-> H(3),
      kafka_consumer_lag |-> H(2500000),
      kafka_consumer_lag_seconds |-> H(1200),
      kafka_broker_request_handler_idle_percent |-> H(2)],
   flink |->
     [flink_task_backpressure |-> 95 (* 0.95 *),
      flink_jobmanager_job_restarts |-> H(8),
      flink_task_records_lag |-> H(5000000),
      flink_task_throughput |-> H(50),
      flink_jobmanager_checkpoint_failure_rate |-> H(45)],
   clickhouse |->
     [clickhouse_insert_latency |-> H(5000),
      clickhouse_inserts_per_second |-> H(1000),
      clickhouse_background_pool_tasks |-> H(250),
      clickhouse_memory_usage |-> H(92),
      clickhouse_failed_queries |-> H(15)]]

\* generate_resource_exhaustion_metrics; 15000000000 bytes are 14305 whole MiB
generate_resource_exhaustion_metrics(level) ==
  [kafka |->
     [kafka_jvm_heap_usage |-> Uniform(H(88), H(95), level),
      kafka_jvm_gc_pause_time |-> Uniform(H(800), H(1500), level),
      kafka_broker_bytes_in_per_sec |-> B(250000000)],
   flink |->
     [flink_taskmanager_heap_used |-> Uniform(H(90), H(96), level),
      flink_taskmanager_cpu_load |-> Uniform(H(92), H(98), level),
      flink_jobmanager_checkpoint_size |-> MiB(14305)],
   clickhouse |->
     [clickhouse_memory_usage |-> Uniform(H(88), H(94), level),
      clickhouse_disk_usage |-> Uniform(H(87), H(93), level),
      clickhouse_memory_tracked |-> Uniform(H(180), H(200), level)]]

\* generate_normal_platform_metrics
generate_normal_platform_metrics(sample_offset, position) ==
  [c \in {"kafka", "flink", "clickhouse"} |->
     [name \in SampleAt(METRIC_ORDER[c],
                        Min2(NormalSampleSize, Len(METRIC_ORDER[c])),
                        sample_offset) |->
        generate_normal_metric(metrics_dict[c][name], position)]]

\* d1 overlaid with the entries of d2: d1[k] = v for (k, v) of d2
Overlay(d1, d2) ==
  [k \in DOMAIN d1 \cup DOMAIN d2 |-> IF k \in DOMAIN d2 THEN d2[k] ELSE d1[k]]

\* inject_component_anomalies
inject_component_anomalies(metrics, comp, severity, num, offset, level, coin) ==
  IF comp \in DOMAIN metrics_dict
  THEN LET names == METRIC_ORDER[comp]
           selected == SampleAt(names, Min2(num, Len(names)), offset)
       IN [metrics EXCEPT ![comp] =
             Overlay(@, [name \in selected |->
                           generate_anomalous_metric(metrics_dict[comp][name],
                                                     severity, level, coin)])]
  ELSE metrics

\* variant: a sampled normal value replaces the scenario's value
AddNormalMetrics_Overwrite(metrics, normal_metrics) ==
  [c \in DOMAIN metrics |-> Overlay(metrics[c], normal_metrics[c])]

\* the loops 'for component in metrics: for metric, value in
\* normal_metrics[component].items(): if metric not in metrics[component]'
AddNormalMetrics(metrics, normal_metrics) ==
  [c \in DOMAIN metrics |-> Overlay(normal_metrics[c], metrics[c])]

\* variant: only critical findings are recorded
component_anomalies_CriticalOnly(metrics, c) ==
  {[metric |-> name,
    value |-> metrics[c][name],
    severity |-> is_anomalous(c, name, metrics[c][name], DefaultDuration).severity,
    reason |-> is_anomalous(c, name, metrics[c][name], DefaultDuration).reason] :
     name \in {m \in DOMAIN metrics[c] :
                 is_anomalous(c, m, metrics[c][m], DefaultDuration).severity = "critical"}}

\* the anomaly analysis of generate_metrics_batch for one component: the
\* list component_anomalies, as the set of its entries (the metrics of a
\* dict are distinct, so no entry occurs twice)
component_anomalies(metrics, c) ==
  {[metric |-> name,
    value |-> metrics[c][name],
    severity |-> is_anomalous(c, name, metrics[c][name], DefaultDuration).severity,
    reason |-> is_anomalous(c, name, metrics[c][name], DefaultDuration).reason] :
     name \in {m \in DOMAIN metrics[c] :
                 is_anomalous(c, m, metrics[c][m], DefaultDuration).is_anomaly}}

\* the dict detected_anomalies: only components with a non-empty list
DetectedAnomalies(metrics) ==
  LET found == {c \in {"kafka", "flink", "clickhouse"} :
                  component_anomalies(metrics, c) # {}}
  IN [c \in found |-> component_anomalies(metrics, c)]

\* the metrics and anomaly_info of generate_metrics_batch under the draws d
BatchMetrics(d) ==
  LET normal_metrics == generate_normal_platform_metrics(d.sample_offset, d.position)
      Inject(metrics, i) ==
        inject_component_anomalies(metrics, d.components[i], d.severity,
                                   d.nums[i], d.offsets[i], d.level, d.coin)
  IN IF ~d.inject_anomaly THEN normal_metrics
     ELSE CASE d.anomaly_type = "cascade_failure" ->
                 AddNormalMetrics(generate_cascade_failure_metrics, normal_metrics)
            [] d.anomaly_type = "resource_exhaustion" ->
                 AddNormalMetrics(generate_resource_exhaustion_metrics(d.level),
                                  normal_metrics)
            [] d.anomaly_type = "single_component" ->
                 Inject(normal_metrics, 1)
            [] d.anomaly_type = "cross_component" ->
                 Inject(Inject(normal_metrics, 1), 2)

AnomalyInfo(d) ==
  IF ~d.inject_anomaly THEN None
  ELSE CASE d.anomaly_type = "cascade_failure" ->
              Some([type |-> "cascade_failure", severity |-> "critical"])
         [] d.anomaly_type = "resource_exhaustion" ->
              Some([type |-> "resource_exhaustion", severity |-> "critical"])
         [] d.anomaly_type = "single_component" ->
              Some([type |-> "single_component", severity |-> d.severity,
                    affected_component |-> d.components[1]])
         [] d.anomaly_type = "cross_component" ->
              Some([type |-> "cross_component", severity |-> "warning",
                    affected_components |-> d.components])

\* generate_metrics_batch
generate_metrics_batch(d) ==
  LET metrics == BatchMetrics(d)
      detected_anomalies == DetectedAnomalies(metrics)
  IN [metrics |-> metrics,
      metadata |->
        [injected_anomaly |-> AnomalyInfo(d),
         detected_anomalies |->
           IF DOMAIN detected_anomalies # {} THEN Some(detected_anomalies)
           ELSE None]]

---------------------------------------------------------------------------
(* Specification of the generator: one batch under drawn random values *)

Positions == {"below", "mid", "above"}
Levels == 0..2
ComponentList == <<"kafka", "flink", "clickhouse">>
Nums == MinAnomalies..MaxAnomalies
SampleOffsets == 0..MaxSampleOffset
SelectOffsets == 0..MaxSelectOffset

\* the draws the code makes on each path; a draw it does not make on a path
\* has one fixed value there.  Within a batch the metrics share the position
\* and the level of their values, and the two components of a
\* cross_component batch share the number of injected metrics.
Draw(inject, type, so, p, cs, sev, ns, os, l, coin) ==
  [inject_anomaly |-> inject, anomaly_type |-> type, sample_offset |-> so,
   position |-> p, components |-> cs, severity |-> sev, nums |-> ns,
   offsets |-> os, level |-> l, coin |-> coin]

Draws ==
  {Draw(FALSE, "", so, p, <<>>, "", <<>>, <<>>, 0, FALSE) :
     so \in SampleOffsets, p \in Positions}
  \cup
  {Draw(TRUE, "cascade_failure", so, p, <<>>, "critical", <<>>, <<>>, 0, FALSE) :
     so \in SampleOffsets, p \in Positions}
  \cup
  {Draw(TRUE, "resource_exhaustion", so, p, <<>>, "critical", <<>>, <<>>, l, FALSE) :
     so \in SampleOffsets, p \in Positions, l \in Levels}
  \cup
  {Draw(TRUE, "single_component", x[1], x[2], <<c>>, sev, <<n>>, <<o>>, l, FALSE) :
     x \in SampleOffsets \X Positions, c \in Components,
     sev \in {"warning", "critical"}, n \in Nums, o \in SelectOffsets,
     l \in Levels}
  \cup
  {Draw(TRUE, "cross_component", x[1], x[2], <<c[1], c[2]>>, "warning",
        <<n[1], n[2]>>, <<o[1], o[2]>>, l, FALSE) :
     x \in SampleOffsets \X Positions,
     c \in {y \in Components \X Components : y[1] # y[2]},
     n \in {<<k, k>> : k \in Nums}, o \in SelectOffsets \X SelectOffsets,
     l \in Levels}

NoBatch == [metrics |-> <<>>, metadata |-> <<>>]

GeneratorInit ==
  /\ rnd \in Draws
  /\ batch = NoBatch
  /\ gpc = "call"

\* batch = generator.generate_metrics_batch()
GenerateBatch ==
  /\ gpc = "call"
  /\ batch' = generate_metrics_batch(rnd)
  /\ gpc' = "done"
  /\ UNCHANGED rnd

\* no batch is generated
GeneratorIdle ==
  /\ rnd = Draw(FALSE, "", 0, "mid", <<>>, "", <<>>, <<>>, 0, FALSE)
  /\ batch = NoBatch
  /\ gpc = "done"

---------------------------------------------------------------------------
(* query_metrics_trend, platform_monitoring_agent.py                       *)
(* avg_value, min_value and max_value are whole numbers here; a mean over  *)
(* 10 points is kept as the sum of the 10 points (ten times the mean) and  *)
(* a comparison with 1.2 or 0.8 times a mean is made on tenfold values, so *)
(* that no quotient is rounded.                                            *)

TrendLimit == 60      \* LIMIT 60
TrendWindow == 10     \* all_avg[:10], all_avg[-10:], / 10, len(all_avg) >= 10
IncreaseFactor == 12  \* older_avg * 1.2, in tenths
DecreaseFactor == 8   \* older_avg * 0.8, in tenths

RECURSIVE SumSeq(_)
SumSeq(s) == IF s = <<>> THEN 0 ELSE Head(s) + SumSeq(Tail(s))

\* s[:n] and s[-n:]
FirstN(s, n) == SubSeq(s, 1, Min2(n, Len(s)))
LastN(s, n) == SubSeq(s, Max2(1, Len(s) - n + 1), Len(s))

\* min(...) and max(...) over a non-empty sequence
MinOf(s) == CHOOSE x \in {s[i] : i \in DOMAIN s} : \A i \in DOMAIN s : x <= s[i]
MaxOf(s) == CHOOSE x \in {s[i] : i \in DOMAIN s} : \A i \in DOMAIN s : x >= s[i]

\* variant: a short series is averaged over all its points
recent_avg_MeanOfAll(all_avg) == (SumSeq(all_avg) * TrendWindow) \div Len(all_avg)

\* recent_avg, times 10
recent_avg(all_avg) ==
  IF Len(all_avg) >= TrendWindow
  THEN SumSeq(FirstN(all_avg, TrendWindow))
  ELSE all_avg[1] * TrendWindow

\* variant: the 10 oldest points are summed only when there are more than 10
older_avg_MoreThanWindow(all_avg) ==
  IF Len(all_avg) > TrendWindow
  THEN SumSeq(LastN(all_avg, TrendWindow))
  ELSE all_avg[Len(all_avg)] * TrendWindow

\* older_avg, times 10
older_avg(all_avg) ==
  IF Len(all_avg) >= TrendWindow
  THEN SumSeq(LastN(all_avg, TrendWindow))
  ELSE all_avg[Len(all_avg)] * TrendWindow

\* variant: the comparisons with 1.2 and 0.8 times older_avg are inclusive
TrendOf_Inclusive(recent, older) ==
  IF recent * 10 >= older * IncreaseFactor THEN "INCREASING"
  ELSE IF recent * 10 <= older * DecreaseFactor THEN "DECREASING"
  ELSE "STABLE"

\* the if / elif / else on recent_avg and older_avg
TrendOf(recent, older) ==
  IF recent * 10 > older * IncreaseFactor THEN "INCREASING"
  ELSE IF recent * 10 < older * DecreaseFactor THEN "DECREASING"
  ELSE "STABLE"

NoData == [status |-> "No data found"]
NoTrend == [status |-> ""]

\* f"Error querying metric trend: {str(e)}"
TrendError(e) == [status |-> "Error querying metric trend", error |-> e]

\* the statistics and the trend; sum(all_avg) / len(all_avg) raises
\* ZeroDivisionError on an empty list, which the except clause reports
Statistics(data) ==
  LET all_avg == [i \in DOMAIN data |-> data[i].avg_value]
  IN IF Len(all_avg) = 0 THEN TrendError("division by zero")
     ELSE [status |-> "METRIC TREND",
           trend |-> TrendOf(recent_avg(all_avg), older_avg(all_avg)),
           recent_avg |-> recent_avg(all_avg),
           older_avg |-> older_avg(all_avg),
           overall_avg |-> [sum |-> SumSeq(all_avg), len |-> Len(all_avg)],
           overall_min |-> MinOf([i \in DOMAIN data |-> data[i].min_value]),
           overall_max |-> MaxOf([i \in DOMAIN data |-> data[i].max_value]),
           latest |-> data[1].avg_value]

\* variant: the statistics are computed whatever was fetched
query_metrics_trend_Unchecked(data) == Statistics(data)

\* query_metrics_trend, from the fetched rows on
query_metrics_trend(data) ==
  IF data = <<>> THEN NoData ELSE Statistics(data)

---------------------------------------------------------------------------
(* Specification of the trend query: one call over a drawn series *)

MaxPoints == 21   \* rows of the view in the lookback

\* avg_value of a bucket: the generator writes no negative value
AvgValues == {0, 8, 10, 12, 13}

Row(v) == [avg_value |-> v, min_value |-> v, max_value |-> v]

\* a series of n points: the latest, the rest of the 10 most recent, the
\* middle, the rest of the 10 oldest, the oldest
Series(n, latest, r, m, o, oldest) ==
  [i \in 1..n |->
     Row(IF i = 1 THEN latest
         ELSE IF i = n THEN oldest
         ELSE IF i <= TrendWindow THEN r
         ELSE IF i > n - TrendWindow THEN o
         ELSE m)]

SeriesSet ==
  {Series(n, x[1], x[2], m, x[3], x[4]) :
     n \in 0..MaxPoints, x \in AvgValues \X AvgValues \X AvgValues \X AvgValues,
     m \in {0, 10}}

TrendInit ==
  /\ metrics_1min \in SeriesSet
  /\ trend = NoTrend
  /\ tpc = "call"

\* cur.execute(query); data = cur.fetchall(); ...; return result
QueryMetricsTrend ==
  /\ tpc = "call"
  /\ trend' = query_metrics_trend(FirstN(metrics_1min, TrendLimit))
  /\ tpc' = "done"
  /\ UNCHANGED metrics_1min

\* get_db_connection or cur.execute raises: except Exception
QueryMetricsTrendError ==
  /\ tpc = "call"
  /\ trend' = TrendError("connection failed")
  /\ tpc' = "done"
  /\ UNCHANGED metrics_1min

\* no trend query is made
TrendIdle ==
  /\ metrics_1min = <<>>
  /\ trend = NoTrend
  /\ tpc = "done"

---------------------------------------------------------------------------
(* DataIngestorService, data_ingestor.py                                   *)
(* A batch is known by its number in the order of generation and by        *)
(* whether it carries metadata.injected_anomaly.  The loop runs in a       *)
(* thread of its own (start), where KeyboardInterrupt is never raised, so  *)
(* the loop ends only when running is false.                               *)

MaxIterations == 4    \* iterations of the ingestion loop that are followed

ResolveEvery == 6     \* self.ingestion_count % 6 == 0
StatsEvery == 12      \* self.ingestion_count % 12 == 0

\* what a write to the store does: it commits; no connection is obtained;
\* an exception is raised before the commit and the rollback succeeds; or
\* the rollback raises in its turn and the exception leaves
\* insert_metrics_batch
WriteOutcomes == {"committed", "refused", "rolled_back", "rollback_raised"}

\* insert_metrics_batch: TRUE, FALSE, or "raised"
insert_metrics_batch(outcome) ==
  CASE outcome = "committed" -> "True"
    [] outcome \in {"refused", "rolled_back"} -> "False"
    [] outcome = "rollback_raised" -> "raised"

\* what insert_metrics_batch and the loop print about the write
WriteLog(outcome) ==
  CASE outcome = "committed" -> {}
    [] outcome = "refused" ->
         {"Database connection failed", "Failed to insert metrics batch"}
    [] outcome = "rolled_back" ->
         {"Error inserting metrics", "Failed to insert metrics batch"}
    [] outcome = "rollback_raised" ->
         {"Error inserting metrics", "Error in ingestion loop"}

RowsPerBatch == 2    \* rows (metrics) of a batch

\* the rows of batch b, and the first k of them
BatchRows(b) == {<<b, i>> : i \in 1..RowsPerBatch}
ExecutedRows(b, k) == {<<b, i>> : i \in 1..k}

\* variant: each executed INSERT is committed at once, a rollback undoes
\* nothing
Persisted_Autocommit(outcome, b, executed) ==
  CASE outcome = "committed" -> BatchRows(b)
    [] outcome = "refused" -> {}
    [] outcome \in {"rolled_back", "rollback_raised"} -> ExecutedRows(b, executed)

\* the rows of batch b that insert_metrics_batch leaves in platform_metrics:
\* all of them after conn.commit(); none without a connection or when an
\* exception ends the transaction after 'executed' rows
Persisted(outcome, b, executed) ==
  CASE outcome = "committed" -> BatchRows(b)
    [] outcome = "refused" -> {}
    [] outcome \in {"rolled_back", "rollback_raised"} -> {}

\* variant: the loop is left when a write fails
AfterIteration_StopOnFailure(success) == IF success = "True" THEN "sleep" ELSE "exited"

\* where the thread is after the body of the loop: time.sleep, on every path
AfterIteration(success) == "sleep"

\* variant: start sets running before it waits for the database
RunningAfterFailedStart_SetFirst == TRUE

\* self.running after start returned False: as constructed
RunningAfterFailedStart == FALSE

IngestInit ==
  /\ running = FALSE
  /\ ingestion_count = 0
  /\ anomaly_count = 0
  /\ generated = 0
  /\ stored = {}
  /\ failed = {}
  /\ platform_metrics = {}
  /\ resolves = 0
  /\ resolve_at = <<>>
  /\ log = {}
  /\ ipc = "init"

\* start, wait_for_database returned True
Start ==
  /\ ipc = "init"
  /\ running' = TRUE
  /\ ipc' = "while"
  /\ UNCHANGED <<ingestion_count, anomaly_count, generated, stored, failed,
                 platform_metrics, resolves, resolve_at, log>>

\* start, wait_for_database returned False
StartFails ==
  /\ ipc = "init"
  /\ running' = RunningAfterFailedStart
  /\ ipc' = "exited"
  /\ log' = {"Cannot start ingestion service - database not available"}
  /\ UNCHANGED <<ingestion_count, anomaly_count, generated, stored, failed,
                 platform_metrics, resolves, resolve_at>>

\* 'while self.running' finds running true
EnterLoop ==
  /\ ipc = "while"
  /\ running
  /\ generated < MaxIterations
  /\ ipc' = "body"
  /\ UNCHANGED <<running, ingestion_count, anomaly_count, generated, stored,
                 failed, platform_metrics, resolves, resolve_at, log>>

\* one pass through the body of 'while self.running'
Iterate ==
  /\ ipc = "body"
  /\ \E injected_anomaly \in BOOLEAN, outcome \in WriteOutcomes,
        executed \in 0..RowsPerBatch, resolve_committed \in BOOLEAN :
       LET metrics_batch == generated + 1
           success == insert_metrics_batch(outcome)
           count == IF success = "True" THEN ingestion_count + 1
                    ELSE ingestion_count
           resolved == /\ success # "raised"
                       /\ count % ResolveEvery = 0
                       /\ resolve_committed
       IN /\ generated' = metrics_batch
          /\ stored' = IF success = "True" THEN stored \cup {metrics_batch}
                       ELSE stored
          /\ failed' = IF success = "True" THEN failed
                       ELSE failed \cup {metrics_batch}
          /\ platform_metrics' =
               platform_metrics \cup Persisted(outcome, metrics_batch, executed)
          /\ ingestion_count' = count
          /\ anomaly_count' = IF success = "True" /\ injected_anomaly
                              THEN anomaly_count + 1 ELSE anomaly_count
          /\ resolves' = IF resolved THEN resolves + 1 ELSE resolves
          /\ resolve_at' = IF resolved THEN Append(resolve_at, count)
                           ELSE resolve_at
          /\ log' = WriteLog(outcome)
                    \cup (IF success = "True" /\ injected_anomaly
                          THEN {"Injected anomaly"} ELSE {})
                    \cup (IF success # "raised" /\ count % StatsEvery = 0
                          THEN {"Ingestion Stats"} ELSE {})
          /\ ipc' = AfterIteration(success)
  /\ UNCHANGED running

\* time.sleep(self.interval_seconds) returns
Wake ==
  /\ ipc = "sleep"
  /\ ipc' = "while"
  /\ UNCHANGED <<running, ingestion_count, anomaly_count, generated, stored,
                 failed, platform_metrics, resolves, resolve_at, log>>

\* 'while self.running' finds running false
ExitLoop ==
  /\ ipc = "while"
  /\ ~running
  /\ ipc' = "exited"
  /\ UNCHANGED <<running, ingestion_count, anomaly_count, generated, stored,
                 failed, platform_metrics, resolves, resolve_at, log>>

\* stop, called by the main thread
Stop ==
  /\ running
  /\ running' = FALSE
  /\ UNCHANGED <<ingestion_count, anomaly_count, generated, stored, failed,
                 platform_metrics, resolves, resolve_at, log, ipc>>

\* the ingestor is not started
IngestIdle ==
  /\ running = FALSE
  /\ ingestion_count = 0
  /\ anomaly_count = 0
  /\ generated = 0
  /\ stored = {}
  /\ failed = {}
  /\ platform_metrics = {}
  /\ resolves = 0
  /\ resolve_at = <<>>
  /\ log = {}
  /\ ipc = "exited"

---------------------------------------------------------------------------
(* check_real_time_anomalies (platform_monitoring_agent.py),               *)
(* get_system_status (api_server.py) and get_system_health_overview        *)
(* (chatbot_interface.py)                                                  *)
(* A text is the sequence of its parts; str.count and 'in' look for a word *)
(* in each part.                                                           *)

CheckLimit == 3       \* LIMIT 3
CheckMinutes == 5     \* last_minutes = 5, INTERVAL '5 minutes'
ComponentMinutes == 10   \* INTERVAL '10 minutes'

\* str.upper and str.lower on the words that matter
Upper(s) ==
  CASE s = "critical" -> "CRITICAL"
    [] s = "warning" -> "WARNING"
    [] s = "kafka" -> "KAFKA"
    [] s = "flink" -> "FLINK"
    [] s = "clickhouse" -> "CLICKHOUSE"
    [] OTHER -> s

Lower(s) ==
  CASE s = "CRITICAL" -> "critical"
    [] s = "WARNING" -> "warning"
    [] s = "KAFKA" -> "kafka"
    [] s = "FLINK" -> "flink"
    [] s = "CLICKHOUSE" -> "clickhouse"
    [] OTHER -> s

\* word in part, for the words CRITICAL, WARNING and the component names; the
\* name of a metric starts with the name of its component
Contains(part, word) ==
  \/ part = word
  \/ /\ word \in Components
     /\ part \in CatalogNames
     /\ ComponentOf(part) = word

\* text.count(word)
Count(text, word) == Cardinality({i \in DOMAIN text : Contains(text[i], word)})

\* word in text.lower()
InLower(text, word) == \E i \in DOMAIN text : Contains(Lower(text[i]), word)

\* str(e) of the exception a failed connection raises
ConnectionError == "connection refused"

\* the rows of a query: those of the last minutes, of one component or of all
Select(rows, minutes, comp) ==
  SelectSeq(rows, LAMBDA r : r.age <= minutes /\ (comp = None \/ r.component = comp[1]))

\* the text for one anomaly
AnomalyText(anomaly) ==
  <<Upper(anomaly.severity), Upper(anomaly.component), anomaly.metric_name,
    anomaly.reason>>

RECURSIVE AnomaliesText(_)
AnomaliesText(anomalies) ==
  IF anomalies = <<>> THEN <<>>
  ELSE AnomalyText(Head(anomalies)) \o AnomaliesText(Tail(anomalies))

\* check_real_time_anomalies(last_minutes, component)
check_real_time_anomalies(db, rows, last_minutes, comp) ==
  IF db = "down" THEN <<"Error checking anomalies", ConnectionError>>
  ELSE LET known == comp # None /\ Lower(comp[1]) \in {"kafka", "flink", "clickhouse"}
           anomalies ==
             IF known
             THEN FirstN(Select(rows, last_minutes, Some(Lower(comp[1]))), CheckLimit)
             ELSE Select(rows, last_minutes, None)
       IN IF anomalies = <<>>
          THEN IF comp # None
               THEN <<"No anomalies detected for", Upper(comp[1])>>
               ELSE <<"No anomalies detected", "System is healthy">>
          ELSE (IF comp # None
                THEN <<Upper(comp[1]), "ANOMALIES (Latest 3)">>
                ELSE <<"ACTIVE ANOMALIES", "active anomalies">>)
               \o AnomaliesText(anomalies)

\* get_system_status
get_system_status(db, rows) ==
  LET current_anomalies == check_real_time_anomalies(db, rows, CheckMinutes, None)
      critical_count == Count(current_anomalies, "CRITICAL")
      warning_count == Count(current_anomalies, "WARNING")
  IN [status |-> IF critical_count > 0 THEN "CRITICAL"
                 ELSE IF warning_count > 0 THEN "WARNING"
                 ELSE "HEALTHY",
      critical_anomalies |-> critical_count,
      warning_anomalies |-> warning_count,
      total_anomalies |-> critical_count + warning_count,
      components |->
        [c \in {"kafka", "flink", "clickhouse"} |->
           IF ~InLower(current_anomalies, c) THEN "HEALTHY" ELSE "ISSUES"]]

\* get_system_health_overview
get_system_health_overview(db, rows) ==
  IF db = "down"
  THEN [error |-> ConnectionError,
        critical_anomalies |-> 0,
        warning_anomalies |-> 0,
        component_status |-> <<>>,
        total_anomalies |-> 0]
  ELSE LET recent == Select(rows, CheckMinutes, None)
           critical_count == Len(SelectSeq(recent, LAMBDA r : r.severity = "critical"))
           warning_count == Len(SelectSeq(recent, LAMBDA r : r.severity = "warning"))
           within == Select(rows, ComponentMinutes, None)
           present == {within[i].component : i \in DOMAIN within}
       IN [critical_anomalies |-> critical_count,
           warning_anomalies |-> warning_count,
           component_status |->
             [c \in present |->
                Len(SelectSeq(within, LAMBDA r : r.component = c))],
           total_anomalies |-> critical_count + warning_count]

---------------------------------------------------------------------------
(* Specification of the status operations: one call on a drawn store *)

MaxActive == 2    \* unresolved rows of the last 10 minutes

EventAges == {CheckMinutes, ComponentMinutes}

ActiveRow(age, comp, severity) ==
  [age |-> age, component |-> comp, severity |-> severity,
   metric_name |-> METRIC_ORDER[comp][1],
   reason |-> "exceeds " \o severity \o " threshold"]

ActiveRows ==
  {ActiveRow(a, c, s) : a \in EventAges, c \in Components, s \in Severities}

\* ORDER BY time DESC: the age of the rows does not decrease
ActiveTables ==
  {rows \in UNION {[1..n -> ActiveRows] : n \in 0..MaxActive} :
     \A i, j \in DOMAIN rows : i < j => rows[i].age <= rows[j].age}

NoResponse == <<>>

StatusInit ==
  /\ store \in {"up", "down"}
  /\ active_events \in ActiveTables
  /\ check_component \in {None} \cup {Some(c) : c \in Components \cup {UnknownComponent}}
  /\ response = NoResponse
  /\ spc = "call"

\* check_real_time_anomalies.invoke({'last_minutes': 5, 'component': ...})
CheckRealTimeAnomalies ==
  /\ spc = "call"
  /\ response' = check_real_time_anomalies(store, active_events, CheckMinutes,
                                           check_component)
  /\ spc' = "check"
  /\ UNCHANGED <<store, active_events, check_component>>

\* GET /system/status
GetSystemStatus ==
  /\ spc = "call"
  /\ response' = get_system_status(store, active_events)
  /\ spc' = "status"
  /\ UNCHANGED <<store, active_events, check_component>>

\* the dashboard's get_system_health_overview()
GetSystemHealthOverview ==
  /\ spc = "call"
  /\ response' = get_system_health_overview(store, active_events)
  /\ spc' = "overview"
  /\ UNCHANGED <<store, active_events, check_component>>

\* no status operation is called
StatusIdle ==
  /\ store = "up"
  /\ active_events = <<>>
  /\ check_component = None
  /\ response = NoResponse
  /\ spc = "idle"

---------------------------------------------------------------------------
(* check_and_resolve_old_anomalies, data_ingestor.py, and the insertion of *)
(* events.  The two UPDATE statements of a pass run in one transaction:    *)
(* NOW() is the time the transaction began, their changes are seen by      *)
(* others at the commit, and a rollback discards them.  A pass that gets   *)
(* no connection returns without a step.                                   *)

NULL == -1                    \* resolved_at IS NULL
ResolveWarningMinutes == 5    \* INTERVAL '5 minutes'
ResolveCriticalMinutes == 10  \* INTERVAL '10 minutes'

MaxClock == 12    \* minutes followed
MaxEvents == 2    \* rows inserted into anomaly_events

\* an event as it is emitted: open
OpenEvent(time, comp, severity) ==
  [time |-> time, component |-> comp, severity |-> severity, resolved_at |-> NULL]

\* variant: WHERE time < NOW() - INTERVAL ... AND severity = ..., without
\* 'resolved_at IS NULL'
Matching_AnyResolution(rows, now, minutes, severity) ==
  {i \in DOMAIN rows :
     /\ rows[i].time < now - minutes
     /\ rows[i].severity = severity}

\* the rows of WHERE resolved_at IS NULL AND time < NOW() - INTERVAL
\* 'minutes' AND severity = ...
Matching(rows, now, minutes, severity) ==
  {i \in DOMAIN rows :
     /\ rows[i].resolved_at = NULL
     /\ rows[i].time < now - minutes
     /\ rows[i].severity = severity}

\* SET resolved_at = NOW() on the rows of a set
SetResolved(rows, ids, now) ==
  [i \in DOMAIN rows |->
     IF i \in ids THEN [rows[i] EXCEPT !.resolved_at = now] ELSE rows[i]]

ResolveInit ==
  /\ clock = 0
  /\ events = <<>>
  /\ pending = {}
  /\ txn_now = 0
  /\ rpc = "idle"

\* time passes, by the shorter expiry or a minute more
Tick ==
  /\ \E d \in {ResolveWarningMinutes, ResolveWarningMinutes + 1} :
       /\ clock + d <= MaxClock
       /\ clock' = clock + d
  /\ UNCHANGED <<events, pending, txn_now, rpc>>

\* an open event is inserted, at any point of a resolution pass
EmitEvent ==
  /\ Len(events) < MaxEvents
  /\ \E severity \in Severities :
       events' = Append(events, OpenEvent(clock, "kafka", severity))
  /\ UNCHANGED <<clock, pending, txn_now, rpc>>

\* cur.execute(resolve_query)
ResolveWarnings ==
  /\ rpc = "idle"
  /\ txn_now' = clock
  /\ pending' = Matching(events, clock, ResolveWarningMinutes, "warning")
  /\ rpc' = "warning_done"
  /\ UNCHANGED <<clock, events>>

\* cur.execute(resolve_critical_query)
ResolveCriticals ==
  /\ rpc = "warning_done"
  /\ pending' = pending \cup
                Matching(events, txn_now, ResolveCriticalMinutes, "critical")
  /\ rpc' = "critical_done"
  /\ UNCHANGED <<clock, events, txn_now>>

\* conn.commit()
ResolveCommit ==
  /\ rpc = "critical_done"
  /\ events' = SetResolved(events, pending, txn_now)
  /\ pending' = {}
  /\ rpc' = "idle"
  /\ UNCHANGED <<clock, txn_now>>

\* except Exception: conn.rollback()
ResolveRollback ==
  /\ rpc \in {"warning_done", "critical_done"}
  /\ pending' = {}
  /\ rpc' = "idle"
  /\ UNCHANGED <<clock, events, txn_now>>

\* no resolution pass and no event
ResolveIdle ==
  /\ clock = 0
  /\ events = <<>>
  /\ pending = {}
  /\ txn_now = 0
  /\ rpc = "off"

---------------------------------------------------------------------------
(* periodic_anomaly_monitor (platform_monitoring_agent.py) and the two     *)
(* places that stop it: shutdown_event (api_server.py) and the 'exit'      *)
(* command of main (platform_monitoring_agent.py).                         *)
(* A module global is a variable of its module: 'from                     *)
(* platform_monitoring_agent import MONITORING_ACTIVE' gives api_server a  *)
(* global of its own with the value at import, and 'global                 *)
(* MONITORING_ACTIVE' in a function of api_server names that one.          *)

MaxMonitorIterations == 4   \* iterations of the monitor followed
MaxNewAnomalies == 2        \* rows the monitor's query returns

\* the thread is started: startup_event, or main with
\* ENABLE_BACKGROUND_MONITOR
MonitorInit ==
  /\ host \in {"api", "interactive"}
  /\ MONITORING_ACTIVE = TRUE
  /\ api_MONITORING_ACTIVE = TRUE
  /\ LATEST_ANOMALIES = 0
  /\ monitor_iterations = 0
  /\ stopped_at = None
  /\ mpc = "while"

\* 'while MONITORING_ACTIVE' of periodic_anomaly_monitor reads the global
\* of platform_monitoring_agent and finds it true
MonitorEnter ==
  /\ mpc = "while"
  /\ MONITORING_ACTIVE
  /\ monitor_iterations < MaxMonitorIterations
  /\ monitor_iterations' = monitor_iterations + 1
  /\ mpc' = "body"
  /\ UNCHANGED <<host, MONITORING_ACTIVE, api_MONITORING_ACTIVE,
                 LATEST_ANOMALIES, stopped_at>>

\* the body of the loop: the query returns rows, returns none, or raises
MonitorIterate ==
  /\ mpc = "body"
  /\ \E new_anomalies \in 0..MaxNewAnomalies, raised \in BOOLEAN :
       LATEST_ANOMALIES' = IF ~raised /\ new_anomalies > 0
                           THEN new_anomalies ELSE LATEST_ANOMALIES
  /\ mpc' = "sleep"
  /\ UNCHANGED <<host, MONITORING_ACTIVE, api_MONITORING_ACTIVE,
                 monitor_iterations, stopped_at>>

\* time.sleep(interval_seconds) returns
MonitorWake ==
  /\ mpc = "sleep"
  /\ mpc' = "while"
  /\ UNCHANGED <<host, MONITORING_ACTIVE, api_MONITORING_ACTIVE,
                 LATEST_ANOMALIES, monitor_iterations, stopped_at>>

\* 'while MONITORING_ACTIVE' finds the global false
MonitorExit ==
  /\ mpc = "while"
  /\ ~MONITORING_ACTIVE
  /\ mpc' = "exited"
  /\ UNCHANGED <<host, MONITORING_ACTIVE, api_MONITORING_ACTIVE,
                 LATEST_ANOMALIES, monitor_iterations, stopped_at>>

\* api_server.shutdown_event: global MONITORING_ACTIVE of api_server
shutdown_event ==
  /\ host = "api"
  /\ stopped_at = None
  /\ api_MONITORING_ACTIVE' = FALSE
  /\ stopped_at' = Some(monitor_iterations)
  /\ UNCHANGED <<host, MONITORING_ACTIVE, LATEST_ANOMALIES,
                 monitor_iterations, mpc>>

\* main of platform_monitoring_agent, user_input 'exit': global
\* MONITORING_ACTIVE of platform_monitoring_agent
exit_command ==
  /\ host = "interactive"
  /\ stopped_at = None
  /\ MONITORING_ACTIVE' = FALSE
  /\ stopped_at' = Some(monitor_iterations)
  /\ UNCHANGED <<host, api_MONITORING_ACTIVE, LATEST_ANOMALIES,
                 monitor_iterations, mpc>>

\* no monitor thread
MonitorIdle ==
  /\ host = "interactive"
  /\ MONITORING_ACTIVE = TRUE
  /\ api_MONITORING_ACTIVE = TRUE
  /\ LATEST_ANOMALIES = 0
  /\ monitor_iterations = 0
  /\ stopped_at = None
  /\ mpc = "exited"

---------------------------------------------------------------------------
(* PlatformAgentWorkflow, PlatformSimpleWorkFLow/workflow.py               *)
(* The graph is run by StateGraph.ainvoke: a node returns an update that   *)
(* is merged into the state, the next node is given by the edges, and an   *)
(* exception of a node leaves ainvoke.  What the LLM agents and the        *)
(* component agent return is an input; a confidence is held in hundredths. *)

ConfidenceThreshold == 60   \* classification.confidence > 0.6
MaxActions == 2             \* results of take_remedial_action

\* LogLevel of a log entry
LogLevels == {"INFO", "WARNING", "ERROR"}

Confidences == {0, 59, 60, 61, 100}
Classifications ==
  {None} \cup {Some([is_error |-> e, confidence |-> c]) :
                 e \in BOOLEAN, c \in Confidences}

\* the keys of self.component_agents, and a component without an agent
ComponentAgents == {"pulsar", "flink", "clickhouse"}
Analyses ==
  {None} \cup {Some([component |-> c]) : c \in ComponentAgents \cup {"other"}}

\* the ActionResult list of n results
ActionResults(n) == [i \in 1..n |-> [action_taken |-> i, success |-> TRUE]]

\* initial_state of process_log_entry
initial_state(entry) ==
  [log_entry |-> entry, error_classification |-> None,
   error_analysis |-> None, action_results |-> <<>>,
   current_step |-> "log_ingestion", retries |-> 0]

\* the state process_log_entry returns when the workflow throws
failed_state(entry) ==
  [log_entry |-> entry, error_classification |-> None,
   error_analysis |-> None, action_results |-> <<>>,
   current_step |-> "workflow_failed", retries |-> 0]

\* variant: confidence >= 0.6
should_analyze_error_Inclusive(s) ==
  IF s.error_classification = None THEN FALSE
  ELSE /\ s.error_classification[1].is_error
       /\ s.error_classification[1].confidence >= ConfidenceThreshold

\* _should_analyze_error
should_analyze_error(s) ==
  IF s.error_classification = None THEN FALSE
  ELSE /\ s.error_classification[1].is_error
       /\ s.error_classification[1].confidence > ConfidenceThreshold

WorkflowInit ==
  /\ log_entry \in {None} \cup {Some([level |-> l]) : l \in LogLevels}
  /\ state = None
  /\ trace = <<>>
  /\ returned = None
  /\ wpc = "call"

\* process_log_entry up to the entry point of the graph
process_log_entry ==
  /\ wpc = "call"
  /\ state' = Some(initial_state(log_entry))
  /\ wpc' = "classify_error"
  /\ UNCHANGED <<log_entry, trace, returned>>

\* _classify_error_node and the conditional edge after it
classify_error_node ==
  /\ wpc = "classify_error"
  /\ trace' = Append(trace, "classify_error")
  /\ \E classification \in Classifications :
       LET s == IF state[1].log_entry = None
                THEN [state[1] EXCEPT !.current_step = "classification_failed"]
                ELSE [state[1] EXCEPT
                        !.error_classification = classification,
                        !.current_step = "error_classified"]
       IN /\ state' = Some(s)
          /\ wpc' = IF should_analyze_error(s) THEN "analyze_error" ELSE "END"
  /\ UNCHANGED <<log_entry, returned>>

\* _analyze_error_node
analyze_error_node ==
  /\ wpc = "analyze_error"
  /\ trace' = Append(trace, "analyze_error")
  /\ \E analysis \in Analyses :
       state' = Some([state[1] EXCEPT !.error_analysis = analysis,
                                      !.current_step = "error_analyzed"])
  /\ wpc' = "route_to_component"
  /\ UNCHANGED <<log_entry, returned>>

\* _route_to_component_node
route_to_component_node ==
  /\ wpc = "route_to_component"
  /\ trace' = Append(trace, "route_to_component")
  /\ state' = Some([state[1] EXCEPT !.current_step = "routed_to_component"])
  /\ wpc' = "execute_actions"
  /\ UNCHANGED <<log_entry, returned>>

\* _execute_actions_node
execute_actions_node ==
  /\ wpc = "execute_actions"
  /\ trace' = Append(trace, "execute_actions")
  /\ \E n \in 0..MaxActions :
       state' =
         Some(IF state[1].error_analysis = None
              THEN [state[1] EXCEPT !.current_step = "execution_failed"]
              ELSE IF state[1].error_analysis[1].component \notin ComponentAgents
              THEN [state[1] EXCEPT !.current_step = "component_agent_not_found"]
              ELSE [state[1] EXCEPT !.action_results = ActionResults(n),
                                    !.current_step = "actions_executed"])
  /\ wpc' = "END"
  /\ UNCHANGED <<log_entry, returned>>

\* the graph reached END: return result
workflow_returns ==
  /\ wpc = "END"
  /\ returned' = state
  /\ wpc' = "returned"
  /\ UNCHANGED <<log_entry, state, trace>>

\* the node that is running raises: except Exception of process_log_entry
workflow_throws ==
  /\ wpc \in {"classify_error", "analyze_error", "route_to_component",
              "execute_actions"}
  /\ trace' = Append(trace, wpc)
  /\ returned' = Some(failed_state(log_entry))
  /\ wpc' = "returned"
  /\ UNCHANGED <<log_entry, state>>

\* no log entry is processed
WorkflowIdle ==
  /\ log_entry = None
  /\ state = None
  /\ trace = <<>>
  /\ returned = None
  /\ wpc = "idle"

---------------------------------------------------------------------------
(* DummyMetricsGenerator, metrics_generator.py                             *)
(* Values are held in hundredths, the resolution of round(value, 2).  The  *)
(* draws of one batch are the record drnd: whether the batch is anomalous, *)
(* the metrics whose draw fell under 0.3, the coin of                      *)
(* generate_anomaly_value and the position of each uniform draw in its     *)
(* interval (its ends and its middle).                                     *)

metrics_definitions ==
  [cpu_usage |-> [min |-> H(20), max |-> H(80), unit |-> "%"],
   memory_usage |-> [min |-> H(30), max |-> H(70), unit |-> "%"],
   request_latency |-> [min |-> H(50), max |-> H(200), unit |-> "ms"],
   error_rate |-> [min |-> H(0), max |-> H(5), unit |-> "%"],
   throughput |-> [min |-> H(100), max |-> H(500), unit |-> "req/s"],
   disk_io |-> [min |-> H(10), max |-> H(100), unit |-> "MB/s"],
   network_bandwidth |-> [min |-> H(50), max |-> H(300), unit |-> "Mbps"],
   active_connections |-> [min |-> H(10), max |-> H(100),
                           unit |-> "connections"]]

\* generate_normal_value
generate_normal_value(metric_config, level) ==
  Uniform(metric_config.min, metric_config.max, level)

\* generate_anomaly_value: max * uniform(1.5, 3.0) or min * uniform(0.1, 0.5)
generate_anomaly_value(metric_config, spike, level) ==
  IF spike
  THEN Times(metric_config.max, Uniform(150, 300, level))
  ELSE Times(metric_config.min, Uniform(10, 50, level))

\* DummyMetricsGenerator.generate_metrics_batch under the draws d
dummy_generate_metrics_batch(d) ==
  LET anomaly_metrics ==
        {m \in DOMAIN metrics_definitions : d.is_anomaly /\ m \in d.chosen}
      metrics ==
        [m \in DOMAIN metrics_definitions |->
           [value |-> IF m \in anomaly_metrics
                      THEN generate_anomaly_value(metrics_definitions[m],
                                                  d.spike, d.level)
                      ELSE generate_normal_value(metrics_definitions[m],
                                                 d.level),
            unit |-> metrics_definitions[m].unit]]
  IN [metrics |-> metrics,
      metadata |->
        [injected_anomaly |-> anomaly_metrics # {},
         anomaly_metrics |-> IF anomaly_metrics # {}
                             THEN Some(anomaly_metrics) ELSE None]]

\* the draws of a batch; without is_anomaly no metric is chosen and no coin
\* is thrown
DummyDraws ==
  {[is_anomaly |-> FALSE, chosen |-> {}, spike |-> FALSE, level |-> l] :
     l \in Levels}
  \cup
  {[is_anomaly |-> TRUE, chosen |-> c, spike |-> s, level |-> l] :
     c \in SUBSET DOMAIN metrics_definitions, s \in BOOLEAN, l \in Levels}

NoDummyBatch == [metrics |-> <<>>, metadata |-> <<>>]

DummyInit ==
  /\ drnd \in DummyDraws
  /\ dummy_batch = NoDummyBatch
  /\ dpc = "call"

\* batch = generator.generate_metrics_batch()
DummyGenerateBatch ==
  /\ dpc = "call"
  /\ dummy_batch' = dummy_generate_metrics_batch(drnd)
  /\ dpc' = "done"
  /\ UNCHANGED drnd

\* no batch is generated
DummyIdle ==
  /\ drnd = [is_anomaly |-> FALSE, chosen |-> {}, spike |-> FALSE, level |-> 0]
  /\ dummy_batch = NoDummyBatch
  /\ dpc = "done"

---------------------------------------------------------------------------
(* Specifications *)

\* the classifier alone: the detector is idle on an empty table
Init ==
  /\ ClassifyInit /\ PatternInit /\ GeneratorIdle /\ TrendIdle /\ IngestIdle
  /\ StatusIdle
  /\ ResolveIdle
  /\ MonitorIdle
  /\ WorkflowIdle
  /\ DummyIdle

Next ==
  Classify /\ UNCHANGED <<pvars, gvars, tvars, ivars, svars,
                          rvars, mvars, wvars, dvars>>

Spec == Init /\ [][Next]_vars

\* no classifier call is made
ClassifyIdle ==
  /\ component = UnknownComponent
  /\ metric_name = UnknownMetric
  /\ value = 0
  /\ duration_minutes = DefaultDuration
  /\ result = NoResult
  /\ pc = "done"

\* the detector alone
PatternIdleInit ==
  /\ ClassifyIdle /\ PatternInit /\ GeneratorIdle /\ TrendIdle /\ IngestIdle
  /\ StatusIdle
  /\ ResolveIdle
  /\ MonitorIdle
  /\ WorkflowIdle
  /\ DummyIdle

PatternFrame ==
  UNCHANGED <<cvars, gvars, tvars, ivars, svars, rvars,
              mvars, wvars, dvars>>

PatternNext ==
  \/ InsertAnomalies /\ PatternFrame
  \/ GetCrossComponentAnomalies /\ PatternFrame
  \/ GetCrossComponentAnomaliesError /\ PatternFrame

PatternSpec == PatternIdleInit /\ [][PatternNext]_vars

\* the generator alone
GeneratorSpecInit ==
  /\ ClassifyIdle /\ PatternInit /\ GeneratorInit /\ TrendIdle /\ IngestIdle
  /\ StatusIdle
  /\ ResolveIdle
  /\ MonitorIdle
  /\ WorkflowIdle
  /\ DummyIdle

GeneratorNext ==
  GenerateBatch /\ UNCHANGED <<cvars, pvars, tvars, ivars, svars,
                               rvars, mvars, wvars, dvars>>

GeneratorSpec == GeneratorSpecInit /\ [][GeneratorNext]_vars

\* the trend query alone
TrendSpecInit ==
  /\ ClassifyIdle /\ PatternInit /\ GeneratorIdle /\ TrendInit /\ IngestIdle
  /\ StatusIdle
  /\ ResolveIdle
  /\ MonitorIdle
  /\ WorkflowIdle
  /\ DummyIdle

TrendFrame ==
  UNCHANGED <<cvars, pvars, gvars, ivars, svars, rvars,
              mvars, wvars, dvars>>

TrendNext ==
  \/ QueryMetricsTrend /\ TrendFrame
  \/ QueryMetricsTrendError /\ TrendFrame

TrendSpec == TrendSpecInit /\ [][TrendNext]_vars

\* the ingestor alone
IngestSpecInit ==
  /\ ClassifyIdle /\ PatternInit /\ GeneratorIdle /\ TrendIdle /\ IngestInit
  /\ StatusIdle
  /\ ResolveIdle
  /\ MonitorIdle
  /\ WorkflowIdle
  /\ DummyIdle

IngestFrame ==
  UNCHANGED <<cvars, pvars, gvars, tvars, svars, rvars,
              mvars, wvars, dvars>>

IngestNext ==
  \/ Start /\ IngestFrame
  \/ StartFails /\ IngestFrame
  \/ EnterLoop /\ IngestFrame
  \/ Iterate /\ IngestFrame
  \/ Wake /\ IngestFrame
  \/ ExitLoop /\ IngestFrame
  \/ Stop /\ IngestFrame

IngestSpec == IngestSpecInit /\ [][IngestNext]_vars

\* the ingestion thread is scheduled and time.sleep returns
IngestLiveSpec ==
  /\ IngestSpec
  /\ WF_vars(EnterLoop /\ IngestFrame)
  /\ WF_vars(Iterate /\ IngestFrame)
  /\ WF_vars(Wake /\ IngestFrame)
  /\ WF_vars(ExitLoop /\ IngestFrame)

\* the status operations alone
StatusSpecInit ==
  /\ ClassifyIdle /\ PatternInit /\ GeneratorIdle /\ TrendIdle /\ IngestIdle
  /\ StatusInit
  /\ ResolveIdle
  /\ MonitorIdle
  /\ WorkflowIdle
  /\ DummyIdle

StatusFrame ==
  UNCHANGED <<cvars, pvars, gvars, tvars, ivars, rvars,
              mvars, wvars, dvars>>

StatusNext ==
  \/ CheckRealTimeAnomalies /\ StatusFrame
  \/ GetSystemStatus /\ StatusFrame
  \/ GetSystemHealthOverview /\ StatusFrame

StatusSpec == StatusSpecInit /\ [][StatusNext]_vars

\* the resolution passes and the insertion of events alone
ResolveSpecInit ==
  /\ ClassifyIdle /\ PatternInit /\ GeneratorIdle /\ TrendIdle /\ IngestIdle
  /\ StatusIdle
  /\ ResolveInit
  /\ MonitorIdle
  /\ WorkflowIdle
  /\ DummyIdle

ResolveFrame ==
  UNCHANGED <<cvars, pvars, gvars, tvars, ivars, svars,
              mvars, wvars, dvars>>

ResolveNext ==
  \/ Tick /\ ResolveFrame
  \/ EmitEvent /\ ResolveFrame
  \/ ResolveWarnings /\ ResolveFrame
  \/ ResolveCriticals /\ ResolveFrame
  \/ ResolveCommit /\ ResolveFrame
  \/ ResolveRollback /\ ResolveFrame

ResolveSpec == ResolveSpecInit /\ [][ResolveNext]_vars


\* the monitor thread and the stop requests alone
MonitorSpecInit ==
  /\ ClassifyIdle /\ PatternInit /\ GeneratorIdle /\ TrendIdle /\ IngestIdle
  /\ StatusIdle
  /\ ResolveIdle
  /\ MonitorInit
  /\ WorkflowIdle
  /\ DummyIdle

MonitorFrame ==
  UNCHANGED <<cvars, pvars, gvars, tvars, ivars, svars,
              rvars, wvars, dvars>>

MonitorNext ==
  \/ MonitorEnter /\ MonitorFrame
  \/ MonitorIterate /\ MonitorFrame
  \/ MonitorWake /\ MonitorFrame
  \/ MonitorExit /\ MonitorFrame
  \/ shutdown_event /\ MonitorFrame
  \/ exit_command /\ MonitorFrame

MonitorSpec == MonitorSpecInit /\ [][MonitorNext]_vars

\* the monitor thread is scheduled and time.sleep returns
MonitorLiveSpec ==
  /\ MonitorSpec
  /\ WF_vars(MonitorEnter /\ MonitorFrame)
  /\ WF_vars(MonitorIterate /\ MonitorFrame)
  /\ WF_vars(MonitorWake /\ MonitorFrame)
  /\ WF_vars(MonitorExit /\ MonitorFrame)


\* the workflow alone: one log entry
WorkflowSpecInit ==
  /\ ClassifyIdle /\ PatternInit /\ GeneratorIdle /\ TrendIdle /\ IngestIdle
  /\ StatusIdle
  /\ ResolveIdle
  /\ MonitorIdle
  /\ WorkflowInit
  /\ DummyIdle

WorkflowFrame ==
  UNCHANGED <<cvars, pvars, gvars, tvars, ivars, svars, rvars, mvars, dvars>>

WorkflowNext ==
  \/ process_log_entry /\ WorkflowFrame
  \/ classify_error_node /\ WorkflowFrame
  \/ analyze_error_node /\ WorkflowFrame
  \/ route_to_component_node /\ WorkflowFrame
  \/ execute_actions_node /\ WorkflowFrame
  \/ workflow_returns /\ WorkflowFrame
  \/ workflow_throws /\ WorkflowFrame

WorkflowSpec == WorkflowSpecInit /\ [][WorkflowNext]_vars


\* DummyMetricsGenerator alone: one batch
DummySpecInit ==
  /\ ClassifyIdle /\ PatternInit /\ GeneratorIdle /\ TrendIdle /\ IngestIdle
  /\ StatusIdle
  /\ ResolveIdle
  /\ MonitorIdle
  /\ WorkflowIdle
  /\ DummyInit

DummyFrame ==
  UNCHANGED <<cvars, pvars, gvars, tvars, ivars, svars, rvars, mvars, wvars>>

DummyNext == DummyGenerateBatch /\ DummyFrame

DummySpec == DummySpecInit /\ [][DummyNext]_vars

---------------------------------------------------------------------------
(* Properties of the classifier, checked under Spec *)

\* the call named a component and a metric of that component's catalog
Known == component \in Components /\ metric_name \in DOMAIN metrics_dict[component]

\* the definition the call evaluates (when Known)
Def == metrics_dict[component][metric_name]

Normal == result.is_anomaly = FALSE /\ result.severity = "normal"
Warning == result.is_anomaly = TRUE /\ result.severity = "warning"
Critical == result.is_anomaly = TRUE /\ result.severity = "critical"

\* C1: a call with an unknown component, or with a metric absent from the
\* component's catalog, returns is_anomaly = false and severity = normal
\* for every value and every duration.
C1_UnknownIsNormal == (pc = "done" /\ ~Known) => Normal

\* C1 case: a metric of another component's catalog, a value at or above
\* its critical threshold, a duration above 5, and still normal
C1_Witness ==
  /\ pc = "done"
  /\ ~Known
  /\ metric_name \in CatalogNames
  /\ value >= DefOf(metric_name).critical_threshold
  /\ duration_minutes > DurationThreshold
  /\ Normal

\* C2: for every catalog metric, a value equal to normal_range.min or to
\* normal_range.max classifies as normal, for every duration.
C2_BoundaryIsNormal ==
  (pc = "done" /\ Known
     /\ value \in {Def.normal_range.min, Def.normal_range.max}) => Normal

\* C2 case: the upper end of a range that is not a single point, with a
\* duration above 5
C2_Witness ==
  /\ pc = "done"
  /\ Known
  /\ value = Def.normal_range.max
  /\ value # Def.normal_range.min
  /\ duration_minutes > DurationThreshold
  /\ Normal

\* C3 (as claimed): for every catalog metric evaluated in direction above,
\* value = critical_threshold classifies as critical, and
\* value = warning_threshold classifies as warning when warning_threshold
\* is strictly below critical_threshold.
C3_AtThresholdAbove ==
  (pc = "done" /\ Known /\ Direction(Def) = "above") =>
     /\ (value = Def.critical_threshold => Critical)
     /\ (value = Def.warning_threshold
           /\ Def.warning_threshold < Def.critical_threshold => Warning)

\* the examples of the claim C4: <<component, metric, value, severity>>
C4_Examples ==
  { <<"kafka", "kafka_consumer_lag", H(5000), "normal">>,
    <<"kafka", "kafka_consumer_lag", H(75000), "warning">>,
    <<"kafka", "kafka_consumer_lag", H(150000), "critical">>,
    <<"flink", "flink_task_backpressure", 5, "normal">>,
    <<"flink", "flink_task_backpressure", 60, "warning">>,
    <<"flink", "flink_task_backpressure", 90, "critical">>,
    <<"clickhouse", "clickhouse_replication_lag", H(3), "normal">>,
    <<"clickhouse", "clickhouse_replication_lag", H(45), "warning">>,
    <<"clickhouse", "clickhouse_replication_lag", H(90), "critical">>,
    <<"kafka", "kafka_broker_under_replicated_partitions", H(0), "normal">>,
    <<"kafka", "kafka_broker_under_replicated_partitions", H(5), "critical">> }

\* C4: for a catalog metric with normal_range.max < warning_threshold <
\* critical_threshold and the default duration, a value inside the normal
\* range is normal, warning_threshold <= value < critical_threshold is a
\* warning, value >= critical_threshold is critical; the listed examples
\* get the listed severities.
C4_ThresholdBands ==
  (pc = "done" /\ Known /\ duration_minutes = DefaultDuration) =>
     /\ (Def.normal_range.max < Def.warning_threshold
           /\ Def.warning_threshold < Def.critical_threshold) =>
          /\ (Def.normal_range.min <= value /\ value <= Def.normal_range.max
                => Normal)
          /\ (Def.warning_threshold <= value /\ value < Def.critical_threshold
                => Warning)
          /\ (value >= Def.critical_threshold => Critical)
     /\ \A e \in C4_Examples :
          (component = e[1] /\ metric_name = e[2] /\ value = e[3])
             => result.severity = e[4]

\* C4 case: flink_task_backpressure = 0.6 is a warning
C4_Witness ==
  /\ pc = "done"
  /\ component = "flink"
  /\ metric_name = "flink_task_backpressure"
  /\ value = 60
  /\ duration_minutes = DefaultDuration
  /\ Warning

\* the metrics whose thresholds lie below the normal range
BelowMetrics ==
  {"kafka_broker_request_handler_idle_percent",
   "kafka_broker_network_processor_idle_percent",
   "flink_jobmanager_job_uptime"}

\* C5 (as claimed): for the metrics whose thresholds lie below the normal
\* range, every value <= critical_threshold classifies as critical and
\* every value with critical_threshold < value <= warning_threshold
\* classifies as warning.
C5_BelowDirection ==
  (pc = "done" /\ Known /\ metric_name \in BelowMetrics) =>
     /\ (value <= Def.critical_threshold => Critical)
     /\ (Def.critical_threshold < value /\ value <= Def.warning_threshold
           => Warning)

\* neither threshold fires, read in the direction of the definition
NoThresholdFires ==
  IF Direction(Def) = "above"
  THEN value < Def.warning_threshold /\ value < Def.critical_threshold
  ELSE value > Def.warning_threshold /\ value > Def.critical_threshold

OutsideNormalRange ==
  value < Def.normal_range.min \/ value > Def.normal_range.max

\* C6: for a known metric and a value outside its normal range for which
\* neither threshold fires, the verdict is a warning citing the first
\* declared anomaly condition when duration_minutes > 5, and normal when
\* duration_minutes <= 5.
C6_DurationFallback ==
  (pc = "done" /\ Known /\ OutsideNormalRange /\ NoThresholdFires) =>
     IF duration_minutes > 5
     THEN /\ Warning
          /\ result.reason = <<"Condition detected: ", Def.anomaly_conditions[1]>>
     ELSE Normal

\* C6 case: flink_task_throughput = 50 with duration 10 is a warning
C6_Witness ==
  /\ pc = "done"
  /\ component = "flink"
  /\ metric_name = "flink_task_throughput"
  /\ value = H(50)
  /\ duration_minutes = 10
  /\ Warning
  /\ result.reason = <<"Condition detected: ", "throughput < 100 records/sec">>

\* a definition is internally consistent: in its direction, critical is
\* strictly more extreme than warning and both lie outside the normal range
Consistent(metric_def) ==
  IF Direction(metric_def) = "above"
  THEN /\ metric_def.warning_threshold < metric_def.critical_threshold
       /\ metric_def.normal_range.max < metric_def.warning_threshold
  ELSE /\ metric_def.critical_threshold < metric_def.warning_threshold
       /\ metric_def.warning_threshold < metric_def.normal_range.min

\* C7 (as claimed): every definition of the catalog is internally
\* consistent; stated of the definition a call evaluates.
C7_DefinitionConsistent == Known => Consistent(Def)

\* C8 (as claimed): no classification is ever performed against a catalog
\* that holds a definition inconsistent with its direction.
C8_NoClassificationOnBadCatalog ==
  pc = "done" =>
    \A c \in Components : \A n \in DOMAIN metrics_dict[c] :
       Consistent(metrics_dict[c][n])

---------------------------------------------------------------------------
(* Properties of the pattern detector, checked under PatternSpec *)

\* the rows the statement reads: those of the table inside the lookback
LookbackRows ==
  {r \in DOMAIN anomaly_events : r.time >= Now - hours * MinutesPerHour}

\* the components with a row of bucket w inside the lookback
ComponentsInBucket(w) ==
  {r.component : r \in {x \in LookbackRows : time_bucket(x.time) = w}}

Buckets == {time_bucket(t) : t \in EventTimes}

Reported(w) == \E i \in DOMAIN report.lines : report.lines[i].window = w

Returned == qpc = "done" /\ report.status # "error"

\* C9: a pattern is emitted for a bucket exactly when at least two distinct
\* components have an event in it; a bucket whose events all belong to one
\* component gets none, whatever their number or severity; no bucket is
\* reported twice.
C9_PatternIffTwoComponents ==
  Returned =>
    /\ \A w \in Buckets : Reported(w) <=> Cardinality(ComponentsInBucket(w)) >= 2
    /\ \A i, j \in DOMAIN report.lines :
         report.lines[i].window = report.lines[j].window => i = j

\* C9 case: a bucket with BulkRows critical events of one component is not
\* reported while another bucket of the same report is
C9_Witness ==
  /\ Returned
  /\ Len(report.lines) = 1
  /\ \E r \in DOMAIN anomaly_events :
       /\ r.severity = "critical"
       /\ anomaly_events[r] >= BulkRows
       /\ r \in LookbackRows
       /\ ComponentsInBucket(time_bucket(r.time)) = {r.component}
       /\ ~Reported(time_bucket(r.time))

\* the pattern types reported for bucket w
TypesOf(w) ==
  {report.lines[i].pattern_type :
     i \in {k \in DOMAIN report.lines : report.lines[k].window = w}}

\* C10: a bucket with events of kafka, flink and clickhouse is labelled
\* CASCADE FAILURE, and a bucket with events of kafka and flink only is
\* labelled PIPELINE ISSUE, whatever the number of events.
C10_CascadeAndPipeline ==
  Returned =>
    \A w \in Buckets :
      /\ ComponentsInBucket(w) = {"kafka", "flink", "clickhouse"}
           => TypesOf(w) = {"CASCADE FAILURE"}
      /\ ComponentsInBucket(w) = {"kafka", "flink"}
           => TypesOf(w) = {"PIPELINE ISSUE"}

\* C10 case: one report with a CASCADE FAILURE and a PIPELINE ISSUE, each
\* of more than 10 events
C10_Witness ==
  /\ Returned
  /\ \E i, j \in DOMAIN report.lines :
       /\ report.lines[i].pattern_type = "CASCADE FAILURE"
       /\ report.lines[i].total_anomalies > ResourceThreshold
       /\ report.lines[j].pattern_type = "PIPELINE ISSUE"
       /\ report.lines[j].total_anomalies > ResourceThreshold

\* the rows of bucket w inside the lookback, and their number
RowsInBucket(w) == {x \in LookbackRows : time_bucket(x.time) = w}
EventCount(w) == SumOver(anomaly_events, RowsInBucket(w))

\* the pattern type the precedence of the claim C11 gives bucket w
ExpectedType(w) ==
  LET cs == ComponentsInBucket(w)
  IN IF cs = {"kafka", "flink", "clickhouse"} THEN "CASCADE FAILURE"
     ELSE IF cs = {"kafka", "flink"} THEN "PIPELINE ISSUE"
     ELSE IF EventCount(w) > 10 THEN "RESOURCE EXHAUSTION"
     ELSE "CORRELATED ANOMALY"

LinesOfType(type) ==
  {i \in DOMAIN report.lines : report.lines[i].pattern_type = type}

\* C11: each reported bucket gets the one pattern type of the precedence
\* cascade failure, pipeline issue, resource exhaustion (total strictly
\* above 10), correlated anomaly; its reported total is the number of
\* events of the bucket; the summary counters equal the numbers of lines
\* of their types.
C11_PrecedenceTotalsCounters ==
  Returned =>
    /\ \A i \in DOMAIN report.lines :
         /\ report.lines[i].pattern_type = ExpectedType(report.lines[i].window)
         /\ report.lines[i].total_anomalies = EventCount(report.lines[i].window)
    /\ report.cascade_failures = Cardinality(LinesOfType("CASCADE FAILURE"))
    /\ report.resource_exhaustions = Cardinality(LinesOfType("RESOURCE EXHAUSTION"))
    /\ report.total = Len(report.lines)

\* C11 case: a bucket of kafka and clickhouse with exactly 11 events is a
\* RESOURCE EXHAUSTION and is counted once
C11_Witness ==
  /\ Returned
  /\ report.resource_exhaustions = 1
  /\ \E i \in DOMAIN report.lines :
       /\ report.lines[i].pattern_type = "RESOURCE EXHAUSTION"
       /\ report.lines[i].total_anomalies = 11
       /\ report.lines[i].affected = <<"clickhouse", "kafka">>

\* C11 case: a bucket of two components with exactly 10 events
C11_AtThreshold ==
  /\ Returned
  /\ \E i \in DOMAIN report.lines :
       /\ report.lines[i].pattern_type = "CORRELATED ANOMALY"
       /\ report.lines[i].total_anomalies = 10

---------------------------------------------------------------------------
(* Claims about the generator *)

Generated == gpc = "done"

\* the batch as it would be without any injection
NormalBatch == generate_normal_platform_metrics(rnd.sample_offset, rnd.position)

\* the metrics of component c the injection set to another value
Altered(c) ==
  {name \in DOMAIN batch.metrics[c] :
     \/ name \notin DOMAIN NormalBatch[c]
     \/ batch.metrics[c][name] # NormalBatch[c][name]}

SingleComponent ==
  Generated /\ rnd.inject_anomaly /\ rnd.anomaly_type = "single_component"

\* C12: a single_component injection alters the metrics of exactly one
\* component, between 2 and 4 distinct metrics of it, and every altered
\* value is classified as an anomaly by is_anomalous at the default duration
C12_SingleComponentAltersAnomalous ==
  SingleComponent =>
    \E c \in Components :
      /\ \A other \in Components \ {c} : Altered(other) = {}
      /\ Cardinality(Altered(c)) \in MinAnomalies..MaxAnomalies
      /\ \A name \in Altered(c) :
           is_anomalous(c, name, batch.metrics[c][name], DefaultDuration).is_anomaly

\* the scenario's own metrics of a cascade_failure or resource_exhaustion batch
ScenarioMetrics ==
  IF rnd.anomaly_type = "cascade_failure"
  THEN generate_cascade_failure_metrics
  ELSE generate_resource_exhaustion_metrics(rnd.level)

Scenario ==
  /\ Generated /\ rnd.inject_anomaly
  /\ rnd.anomaly_type \in {"cascade_failure", "resource_exhaustion"}

\* every metric of the scenario is in the batch with the scenario's value,
\* for the three components
ScenarioValuesKept ==
  \A c \in Components :
    \A name \in DOMAIN ScenarioMetrics[c] :
      /\ name \in DOMAIN batch.metrics[c]
      /\ batch.metrics[c][name] = ScenarioMetrics[c][name]

\* C13 as stated: the scenario's values are kept and every remaining metric of
\* each component's catalog is in the batch with a value in its normal range
C13_AllRemainingCatalogMetrics ==
  Scenario =>
    /\ ScenarioValuesKept
    /\ \A c \in Components :
         \A name \in DOMAIN metrics_dict[c] \ DOMAIN ScenarioMetrics[c] :
           /\ name \in DOMAIN batch.metrics[c]
           /\ InNormalRange(metrics_dict[c][name].normal_range,
                            batch.metrics[c][name])

\* C13 (amended): the scenario's values are kept for the three components,
\* and the other metrics of the batch are those of the sample of 8 metrics
\* per component that generate_normal_platform_metrics drew which the
\* scenario does not set, each with a value inside its normal range; a
\* catalog metric in neither set is absent from the batch
C13_ScenarioOverSampledNormal ==
  Scenario =>
    /\ ScenarioValuesKept
    /\ \A c \in Components :
         /\ Cardinality(DOMAIN NormalBatch[c]) = NormalSampleSize
         /\ DOMAIN batch.metrics[c] =
              DOMAIN ScenarioMetrics[c] \cup DOMAIN NormalBatch[c]
         /\ \A name \in DOMAIN batch.metrics[c] \ DOMAIN ScenarioMetrics[c] :
              /\ batch.metrics[c][name] = NormalBatch[c][name]
              /\ InNormalRange(metrics_dict[c][name].normal_range,
                               batch.metrics[c][name])

\* a cascade batch whose sample drew a metric of the scenario with another
\* value, and which lacks a metric of the catalog
C13_Witness ==
  /\ Scenario
  /\ rnd.anomaly_type = "cascade_failure"
  /\ "kafka_consumer_lag" \in DOMAIN NormalBatch["kafka"]
  /\ NormalBatch["kafka"]["kafka_consumer_lag"] # H(2500000)
  /\ batch.metrics["kafka"]["kafka_consumer_lag"] = H(2500000)
  /\ "kafka_jvm_heap_usage" \notin DOMAIN batch.metrics["kafka"]

\* what is_anomalous(component, metric, value) returns for a metric of the batch
VerdictOf(c, name) ==
  is_anomalous(c, name, batch.metrics[c][name], DefaultDuration)

AnomalousMetrics(c) ==
  {name \in DOMAIN batch.metrics[c] : VerdictOf(c, name).is_anomaly}

\* C14: metadata.detected_anomalies has, per component, one entry (metric,
\* value, severity, reason) for exactly the metrics of the batch that
\* is_anomalous at the default duration reports as anomalies, with the
\* severity and reason it returned; a component without one is omitted, and
\* the field is None when no metric of the batch is anomalous
C14_DetectedAnomaliesExact ==
  Generated =>
    LET detected == batch.metadata.detected_anomalies
        found == {c \in Components : AnomalousMetrics(c) # {}}
    IN IF found = {} THEN detected = None
       ELSE /\ detected # None
            /\ DOMAIN detected[1] = found
            /\ \A c \in found :
                 /\ {e.metric : e \in detected[1][c]} = AnomalousMetrics(c)
                 /\ Cardinality(detected[1][c]) = Cardinality(AnomalousMetrics(c))
                 /\ \A e \in detected[1][c] :
                      /\ e.value = batch.metrics[c][e.metric]
                      /\ e.severity = VerdictOf(c, e.metric).severity
                      /\ e.reason = VerdictOf(c, e.metric).reason

\* a batch with a warning entry for one component and no entry for another
C14_Witness ==
  /\ Generated
  /\ batch.metadata.detected_anomalies # None
  /\ "kafka" \notin DOMAIN batch.metadata.detected_anomalies[1]
  /\ "flink" \in DOMAIN batch.metadata.detected_anomalies[1]
  /\ \E e \in batch.metadata.detected_anomalies[1]["flink"] :
       e.severity = "warning"

\* a batch without any anomalous metric
C14_NoneDetected ==
  Generated /\ batch.metadata.detected_anomalies = None

---------------------------------------------------------------------------
(* Claims about the trend query *)

AllAvg == [i \in DOMAIN metrics_1min |-> metrics_1min[i].avg_value]

\* the call returned its trend report
TrendReported == tpc = "done" /\ trend.status = "METRIC TREND"

\* ten times the mean of the 10 most recent and of the 10 oldest averages
MeanRecent10 == SumSeq([i \in 1..10 |-> AllAvg[i]])
MeanOldest10 == SumSeq([i \in 1..10 |-> AllAvg[Len(AllAvg) - 10 + i]])

\* the direction the 1.2x / 0.8x rule gives for ten times a recent and ten
\* times an older value
Direction12(recent, older) ==
  CASE 10 * recent > 12 * older -> "INCREASING"
    [] 10 * recent < 8 * older /\ ~(10 * recent > 12 * older) -> "DECREASING"
    [] OTHER -> "STABLE"

\* C15: on 20 or more per-minute averages (none negative), the trend is
\* STABLE when all averages are equal, INCREASING exactly when the mean of
\* the 10 most recent is strictly above 1.2 times the mean of the 10 oldest,
\* DECREASING exactly when it is strictly below 0.8 times it, else STABLE
C15_TrendOfTwentyOrMore ==
  (TrendReported /\ Len(AllAvg) >= 20) =>
    /\ (\A i, j \in DOMAIN AllAvg : AllAvg[i] = AllAvg[j]) =>
         trend.trend = "STABLE"
    /\ trend.trend = "INCREASING" <=> 10 * MeanRecent10 > 12 * MeanOldest10
    /\ trend.trend = "DECREASING" <=> 10 * MeanRecent10 < 8 * MeanOldest10
    /\ trend.trend = "STABLE" <=>
         /\ 10 * MeanRecent10 <= 12 * MeanOldest10
         /\ 10 * MeanRecent10 >= 8 * MeanOldest10

\* 20 points whose recent mean is exactly 1.2 times the oldest mean: STABLE
C15_Witness ==
  /\ TrendReported /\ Len(AllAvg) >= 20
  /\ MeanOldest10 > 0
  /\ 10 * MeanRecent10 = 12 * MeanOldest10
  /\ trend.trend = "STABLE"

C15_Increasing ==
  TrendReported /\ Len(AllAvg) >= 20 /\ trend.trend = "INCREASING"

C15_Decreasing ==
  TrendReported /\ Len(AllAvg) >= 20 /\ trend.trend = "DECREASING"

C15_Flat ==
  /\ TrendReported /\ Len(AllAvg) >= 20 /\ AllAvg[1] > 0
  /\ \A i \in DOMAIN AllAvg : AllAvg[i] = AllAvg[1]

\* C16: when the query fetches no row, the call returns 'No data found' and
\* nothing else: no statistic is computed and no division is attempted
C16_NoDataFound ==
  (tpc = "done" /\ metrics_1min = <<>> /\ trend # TrendError("connection failed")) =>
    trend = NoData

C16_Witness == tpc = "done" /\ metrics_1min = <<>> /\ trend = NoData

\* C17: with 1 to 9 points the call reports a trend; the recent value is the
\* most recent average, the older value the oldest one, the direction follows
\* the 1.2x / 0.8x rule on these two, and one point alone (not negative)
\* gives STABLE
C17_FewPoints ==
  (tpc = "done" /\ Len(AllAvg) \in 1..9 /\ trend # TrendError("connection failed")) =>
    /\ trend.status = "METRIC TREND"
    /\ trend.recent_avg = 10 * AllAvg[1]
    /\ trend.older_avg = 10 * AllAvg[Len(AllAvg)]
    /\ trend.trend = Direction12(10 * AllAvg[1], 10 * AllAvg[Len(AllAvg)])
    /\ Len(AllAvg) = 1 => trend.trend = "STABLE"

\* 9 points, INCREASING by the first and the last although the mean of all
\* points is not above 1.2 times the last
C17_Witness ==
  /\ TrendReported /\ Len(AllAvg) = 9
  /\ trend.trend = "INCREASING"
  /\ 10 * SumSeq(AllAvg) <= 12 * 9 * AllAvg[9]

C17_OnePoint ==
  TrendReported /\ Len(AllAvg) = 1 /\ AllAvg[1] > 0 /\ trend.trend = "STABLE"

---------------------------------------------------------------------------
(* Claims about the ingestor *)

\* the iteration for batch n ended with a failed write
FailedIteration(n) == generated = n /\ n \in failed /\ ipc # "while"

\* C18: a failed batch write never stops the ingestion loop: as long as
\* running stays true, an iteration whose write failed (no connection, or an
\* exception during the insert) is followed by an iteration that generates
\* and attempts to write a new batch
C18_FailedWriteDoesNotStopLoop ==
  \A n \in 1..(MaxIterations - 1) :
    FailedIteration(n) ~> (generated = n + 1 \/ ~running)

\* the loop is running and has generated another batch after a failed write
C18_Witness ==
  /\ running
  /\ 1 \in failed
  /\ generated >= 2
  /\ "Failed to insert metrics batch" \notin log

\* the same after a write whose rollback raised
C18_AfterRaise ==
  /\ running
  /\ generated = 1
  /\ "Error in ingestion loop" \in log
  /\ ipc = "while"

\* C19: a batch whose first write the store rejected is written again: it is
\* not dropped when a later write succeeds
C19_FailedBatchRetried ==
  \A b \in failed : (\E later \in stored : later > b) => b \in stored

---------------------------------------------------------------------------
(* Claims about the status operations *)

\* C20: when the read of the anomalies fails, the caller gets an error, not
\* a healthy verdict: check_real_time_anomalies answers with its error text,
\* /system/status reports neither the system nor a component as HEALTHY and
\* no count of zero anomalies, and the dashboard overview carries an error
C20_StoreFailureReportedAsError ==
  (store = "down" /\ spc \in {"check", "status", "overview"}) =>
    /\ spc = "check" =>
         /\ response[1] = "Error checking anomalies"
         /\ \A i \in DOMAIN response : response[i] # "System is healthy"
    /\ spc = "status" =>
         /\ response.status # "HEALTHY"
         /\ \A c \in DOMAIN response.components :
              response.components[c] # "HEALTHY"
         /\ response.total_anomalies # 0
    /\ spc = "overview" => "error" \in DOMAIN response


(***************************************************************************)
(* C21 .. : resolution of events, data_ingestor.py                         *)
(***************************************************************************)

\* C21: events are append-only and resolution is by age alone: no step
\* removes a row or alters time, component or severity of one; a
\* resolved_at that is set never changes and is never cleared; and a
\* resolved_at that changes was NULL, becomes the NOW() of the pass, and
\* belongs to a warning older than 5 minutes or a critical older than 10
\* minutes at that NOW(), whatever insertions fall between the steps of a
\* pass.
C21_ResolutionOnlyStampsOpenExpiredEvents ==
  [][/\ Len(events') >= Len(events)
     /\ \A i \in DOMAIN events :
          /\ events'[i].time = events[i].time
          /\ events'[i].component = events[i].component
          /\ events'[i].severity = events[i].severity
          /\ events[i].resolved_at # NULL =>
               events'[i].resolved_at = events[i].resolved_at
          /\ events'[i].resolved_at # events[i].resolved_at =>
               /\ events[i].resolved_at = NULL
               /\ events'[i].resolved_at = txn_now
               /\ events[i].severity = "warning" =>
                    events[i].time < txn_now - ResolveWarningMinutes
               /\ events[i].severity = "critical" =>
                    events[i].time < txn_now - ResolveCriticalMinutes]_vars

\* a pass has resolved an event and an event inserted no earlier than that
\* pass is open
C21_Witness ==
  /\ rpc = "idle"
  /\ \E i, j \in DOMAIN events :
       /\ events[i].resolved_at # NULL
       /\ events[j].resolved_at = NULL
       /\ events[j].time >= events[i].resolved_at


(***************************************************************************)
(* C22 .. C23 : scenario values and normal batches,                        *)
(* platform_metrics_generator.py                                           *)
(***************************************************************************)

\* metadata.detected_anomalies has an entry for metric name of component c
Detected(c, name) ==
  /\ batch.metadata.detected_anomalies # None
  /\ c \in DOMAIN batch.metadata.detected_anomalies[1]
  /\ \E e \in batch.metadata.detected_anomalies[1][c] : e.metric = name

\* C22 as stated, first half: each of the 15 values of
\* generate_cascade_failure_metrics classifies as non-normal at the default
\* duration, so each is an entry of detected_anomalies
C22_CascadeValuesDetected ==
  (Generated /\ rnd.inject_anomaly /\ rnd.anomaly_type = "cascade_failure") =>
    \A c \in Components :
      \A name \in DOMAIN generate_cascade_failure_metrics[c] :
        /\ VerdictOf(c, name).is_anomaly
        /\ Detected(c, name)

\* C22, second half: each value of generate_resource_exhaustion_metrics, at
\* the ends and the middle of its interval, classifies as non-normal at the
\* default duration and is an entry of detected_anomalies
C22_ExhaustionValuesDetected ==
  (Generated /\ rnd.inject_anomaly
     /\ rnd.anomaly_type = "resource_exhaustion") =>
    \A c \in Components :
      \A name \in DOMAIN generate_resource_exhaustion_metrics(rnd.level)[c] :
        /\ VerdictOf(c, name).is_anomaly
        /\ Detected(c, name)


\* C23: every value of generate_normal_metric lies in [min, max] of its
\* definition after clamping and rounding, so a batch generated without
\* injection has injected_anomaly = None and detected_anomalies = None
C23_NormalBatchHasNoAnomaly ==
  (Generated /\ ~rnd.inject_anomaly) =>
    /\ \A c \in Components :
         \A name \in DOMAIN batch.metrics[c] :
           InNormalRange(metrics_dict[c][name].normal_range,
                         batch.metrics[c][name])
    /\ batch.metadata.injected_anomaly = None
    /\ batch.metadata.detected_anomalies = None

\* a batch without injection whose samples fell above the range and were
\* clamped to its max
C23_Witness ==
  /\ Generated /\ ~rnd.inject_anomaly
  /\ rnd.position = "above"
  /\ \E c \in Components :
       \E name \in DOMAIN batch.metrics[c] :
         /\ metrics_dict[c][name].normal_range.max # Inf
         /\ batch.metrics[c][name] = metrics_dict[c][name].normal_range.max
  /\ batch.metadata.detected_anomalies = None


(***************************************************************************)
(* C24, C26, C27 : the ingestion service, data_ingestor.py                 *)
(***************************************************************************)

\* C24 as stated: the resolution pass runs once per six ingested batches:
\* between two consecutive passes ingestion_count has advanced by 6, also
\* when writes fail
C24_SixBatchesBetweenPasses ==
  \A i \in 1..(Len(resolve_at) - 1) :
    resolve_at[i + 1] - resolve_at[i] = ResolveEvery

\* C26: insert_metrics_batch is all-or-nothing.  An iteration whose insert
\* did not return True leaves platform_metrics and ingestion_count as they
\* were; one whose insert returned True adds every row of its batch and one
\* to ingestion_count; and ingestion_count is at all times the number of
\* batches that are fully written, no batch being written in part.
C26_InsertAllOrNothing ==
  /\ [](/\ ingestion_count =
             Cardinality({b \in 1..generated :
                            BatchRows(b) \subseteq platform_metrics})
        /\ \A b \in 1..generated :
             \/ BatchRows(b) \subseteq platform_metrics
             \/ BatchRows(b) \cap platform_metrics = {})
  /\ [][generated' # generated =>
          /\ generated' \in failed' =>
               /\ platform_metrics' = platform_metrics
               /\ ingestion_count' = ingestion_count
          /\ generated' \in stored' =>
               /\ BatchRows(generated') \cap platform_metrics = {}
               /\ platform_metrics' =
                    platform_metrics \cup BatchRows(generated')
               /\ ingestion_count' = ingestion_count + 1]_vars

\* a write failed and a later one committed: only the rows of the later
\* batch are in the table
C26_Witness ==
  /\ 1 \in failed
  /\ "Error inserting metrics" \notin log
  /\ 2 \in stored
  /\ platform_metrics = BatchRows(2)
  /\ ingestion_count = 1

\* the ingestion thread exists
ThreadAlive == ipc \in {"while", "body", "sleep"}

\* C27: start sets running and starts the thread only when the database is
\* ready; otherwise it returns False, running stays false and no thread
\* exists.  Once stop has set running false the loop enters no iteration
\* (the one in flight ends) and the thread terminates.
C27_StartAndStop ==
  /\ [][ipc = "init" /\ ipc' # "init" =>
          \/ running' /\ ipc' = "while"
          \/ ~running' /\ ~ThreadAlive' /\ generated' = 0]_vars
  /\ [](ipc = "init" => ~running)
  /\ [][~running /\ ipc # "body" =>
          ipc' # "body" /\ generated' = generated]_vars
  /\ [][~running /\ ipc # "init" => ~running']_vars
  /\ (~running /\ ThreadAlive) ~> (ipc = "exited")

\* stop was called while an iteration was in flight
C27_Witness ==
  /\ ~running
  /\ ipc = "body"

\* the start that failed
C27_StartFailed ==
  /\ ~running
  /\ ipc = "exited"
  /\ "Cannot start ingestion service - database not available" \in log


(***************************************************************************)
(* C25 : stopping periodic_anomaly_monitor                                 *)
(***************************************************************************)

\* iterations the monitor has entered since the stop request
EnteredSinceStop == monitor_iterations - stopped_at[1]

\* C25 as stated: once shutdown_event of the API server, or the 'exit'
\* command, has set the monitoring-active flag false, the monitor enters at
\* most one more iteration
C25_MonitorStopsAfterShutdown ==
  stopped_at # None => EnteredSinceStop <= 1

\* the part of C25 that holds: after the 'exit' command of the interactive
\* main the monitor enters no further iteration and its thread ends
C25_MonitorStopsAfterExitCommand ==
  /\ [](host = "interactive" /\ stopped_at # None => EnteredSinceStop = 0)
  /\ (host = "interactive" /\ stopped_at # None) ~> (mpc = "exited")


(***************************************************************************)
(* C28 : PlatformAgentWorkflow, workflow.py                                *)
(***************************************************************************)

WorkflowOrder ==
  <<"classify_error", "analyze_error", "route_to_component", "execute_actions">>

\* the classification the local LLM returned is an error with a confidence
\* above the threshold
ConfidentError(s) ==
  /\ s.error_classification # None
  /\ s.error_classification[1].is_error
  /\ s.error_classification[1].confidence > ConfidenceThreshold

\* the workflow threw: process_log_entry returned its failure state
WorkflowFailed ==
  /\ returned # None
  /\ returned[1].current_step = "workflow_failed"

\* C28: the nodes run in the order classify_error, analyze_error,
\* route_to_component, execute_actions; execute_actions runs, and actions
\* are in the state, only when the classification is an error with
\* confidence strictly above 0.6; every other entry ends after the
\* classification, without analysis and without action; and when a node
\* throws, process_log_entry returns a state with current_step
\* 'workflow_failed' and no action_results.
C28_WorkflowOrderAndGate ==
  /\ \A i \in DOMAIN trace : trace[i] = WorkflowOrder[i]
  /\ state # None =>
       /\ ("execute_actions" \in {trace[i] : i \in DOMAIN trace}
             \/ state[1].action_results # <<>>
             \/ state[1].error_analysis # None)
            => ConfidentError(state[1])
       /\ (wpc \in {"END", "returned"} /\ ~ConfidentError(state[1])) =>
            /\ trace = <<"classify_error">>
            /\ state[1].error_analysis = None
            /\ state[1].action_results = <<>>
  /\ wpc = "returned" =>
       /\ returned # None
       /\ returned[1].action_results # <<>> =>
            /\ returned = state
            /\ ConfidentError(returned[1])
            /\ trace = WorkflowOrder
       /\ returned # state =>
            /\ returned[1].current_step = "workflow_failed"
            /\ returned[1].action_results = <<>>
            /\ returned[1].log_entry = log_entry

\* an entry classified as an error with confidence 0.61 ran the four nodes
\* and got actions
C28_Witness ==
  /\ wpc = "returned"
  /\ trace = WorkflowOrder
  /\ returned[1].error_classification # None
  /\ returned[1].error_classification[1].confidence = ConfidenceThreshold + 1
  /\ returned[1].action_results # <<>>

\* an error with confidence exactly 0.6 ended after the classification
C28_AtThreshold ==
  /\ wpc = "returned"
  /\ trace = <<"classify_error">>
  /\ returned[1].error_classification # None
  /\ returned[1].error_classification[1].is_error
  /\ returned[1].error_classification[1].confidence = ConfidenceThreshold
  /\ returned[1].current_step = "error_classified"

\* execute_actions threw
C28_Failed ==
  /\ WorkflowFailed
  /\ trace = WorkflowOrder


(***************************************************************************)
(* C29 : DummyMetricsGenerator, metrics_generator.py                       *)
(***************************************************************************)

\* the names of metadata.anomaly_metrics
AnomalyMetrics ==
  IF dummy_batch.metadata.anomaly_metrics = None THEN {}
  ELSE dummy_batch.metadata.anomaly_metrics[1]

\* C29 as stated: every metric listed in anomaly_metrics has a value
\* strictly outside [min, max] of its definition, every other metric a
\* value inside it, and injected_anomaly is true exactly when
\* anomaly_metrics is not empty
C29_AnomalyMetricsOutsideRange ==
  dpc = "done" =>
    /\ \A m \in DOMAIN metrics_definitions :
         LET v == dummy_batch.metrics[m].value
             inside == /\ metrics_definitions[m].min <= v
                       /\ v <= metrics_definitions[m].max
         IN IF m \in AnomalyMetrics THEN ~inside ELSE inside
    /\ dummy_batch.metadata.injected_anomaly = (AnomalyMetrics # {})

\* the part of C29 that holds: the same, for every metric whose min is not
\* 0
C29_ExceptZeroMin ==
  dpc = "done" =>
    /\ \A m \in DOMAIN metrics_definitions :
         LET v == dummy_batch.metrics[m].value
             inside == /\ metrics_definitions[m].min <= v
                       /\ v <= metrics_definitions[m].max
         IN metrics_definitions[m].min # 0 =>
              IF m \in AnomalyMetrics THEN ~inside ELSE inside
    /\ dummy_batch.metadata.injected_anomaly = (AnomalyMetrics # {})


(***************************************************************************)
(* C30 : the windows of query_metrics_trend on 10 to 19 points             *)
(***************************************************************************)

\* the points both windows count: all_avg[n-10:10], as a sum
SharedPoints ==
  SumSeq(SubSeq(AllAvg, Len(AllAvg) - TrendWindow + 1, TrendWindow))

\* C30: on 10 to 19 points the 10 most recent and the 10 oldest points
\* overlap: both sums contain the points from the 10th oldest to the 10th
\* most recent; on exactly 10 points the two windows are the same, the two
\* means are equal and the direction is STABLE for every series without
\* negative values, whatever its slope
C30_OverlappingWindows ==
  (TrendReported /\ Len(AllAvg) \in TrendWindow..(2 * TrendWindow - 1)) =>
    /\ trend.recent_avg =
         SumSeq(SubSeq(AllAvg, 1, Len(AllAvg) - TrendWindow)) + SharedPoints
    /\ trend.older_avg =
         SharedPoints + SumSeq(SubSeq(AllAvg, TrendWindow + 1, Len(AllAvg)))
    /\ Len(AllAvg) = TrendWindow =>
         /\ trend.recent_avg = trend.older_avg
         /\ trend.trend = "STABLE"

\* 10 points falling from 13 to 0, reported STABLE
C30_Witness ==
  /\ TrendReported /\ Len(AllAvg) = TrendWindow
  /\ AllAvg[TrendWindow] = 13 /\ AllAvg[1] = 0
  /\ trend.trend = "STABLE"

\* 15 points whose windows share 5 points that are not 0
C30_Overlap ==
  /\ TrendReported /\ Len(AllAvg) = 15
  /\ SharedPoints > 0
  /\ trend.trend = "INCREASING"

=============================================================================
